---- MODULE Spec2Model ----
(***************************************************************************)
(* A model of punchcard/shapes: the update-expression Writer and its       *)
(* Namespace (packages/@shapes/dynamodb/src/writer.ts), the attribute      *)
(* codec (mapper.ts), the JSON codec, and the structural transforms        *)
(* (IsInstance, Equals, Validator) they are built on.                      *)
(*                                                                         *)
(* JavaScript values are tagged pairs <<tag, payload>>:                    *)
(*   <<"undefined",0>>  <<"null",0>>  <<"string",s>>  <<"number",n>>       *)
(*   <<"nan",0>>  <<"boolean",b>>  <<"date",ms>>  <<"buffer",bytes>>       *)
(*   <<"array",items>>  <<"set",items>>  <<"object",<<k1,v1>>,...>>        *)
(* An object keeps its own keys in insertion order, so a key bound to      *)
(* undefined is distinguishable from a missing key, as in JavaScript.      *)
(* A call that throws yields <<"throw", what>>.                            *)
(***************************************************************************)
EXTENDS Integers, Sequences, FiniteSets, TLC

VARIABLES
  tokens,              \* Writer.tokens
  aliases,             \* Namespace.aliases            (undefined until the first addName)
  aliasReverseLookup,  \* Namespace.aliasReverseLookup (undefined until the first addName)
  values,              \* Namespace.values             (undefined until the first addValue)
  namesCounter,        \* Namespace.namesCounter
  valuesCounter,       \* Namespace.valuesCounter
  ret,                 \* what the last call returned
  hist,                \* the calls made so far: <<operation, argument, returned>>
  shape,               \* the Shape a codec was requested for
  optValidate,         \* options.validate of that request
  input,               \* the value handed to the codec
  otherInput,               \* the second value handed to Equals
  phase,               \* which codec calls were made on the input
  wire,                \* what write returned
  output,              \* what read returned
  caches,              \* the WeakMaps: the entries <<cache, Shape, transform>>
  built,               \* how often the last build built the transform of each <<family, Shape>>
  nextId,              \* the transforms built so far
  maps,                \* the WeakMaps created so far by calls without options
  ctx,                 \* per execution context, the request it is serving
  log                  \* the requests served so far

nsVars == <<aliases, aliasReverseLookup, values, namesCounter, valuesCounter>>
writerVars == <<tokens, aliases, aliasReverseLookup, values, namesCounter, valuesCounter, ret, hist>>
codecVars == <<shape, optValidate, input, otherInput, phase, wire, output>>
cacheVars == <<caches, built, nextId, maps, ctx, log>>
vars == <<writerVars, codecVars, cacheVars>>

-----------------------------------------------------------------------------
(* JavaScript values *)

Undefined == <<"undefined", 0>>
Null == <<"null", 0>>
NaN == <<"nan", 0>>
Str(s) == <<"string", s>>
Num(n) == <<"number", n>>
Bool(b) == <<"boolean", b>>
Arr(items) == <<"array", items>>
SetOf(items) == <<"set", items>>
Obj(entries) == <<"object", entries>>
Date(ms) == <<"date", ms>>
Buffer(bytes) == <<"buffer", bytes>>
Throw(what) == <<"throw", what>>
EmptyObj == Obj(<<>>)

Tag(v) == v[1]
Payload(v) == v[2]
IsThrow(v) == Tag(v) = "throw"

\* r, then K of it: what a statement that throws leaves of the statements after it
Try(r, K(_)) == IF IsThrow(r) THEN r ELSE K(r)

\* try { r } catch { alt }
Catch(r, alt) == IF IsThrow(r) THEN alt ELSE r

\* typeof v
TypeOf(v) ==
  CASE Tag(v) = "undefined" -> "undefined"
    [] Tag(v) = "string" -> "string"
    [] Tag(v) \in {"number", "nan"} -> "number"
    [] Tag(v) = "boolean" -> "boolean"
    [] OTHER -> "object"

\* a === b
StrictEq(a, b) == Tag(a) = Tag(b) /\ Tag(a) \in {"undefined", "null", "string", "number", "boolean"} /\ a = b

Range(s) == {s[i] : i \in DOMAIN s}

\* Object.keys(o), o[k], and o[k] = v on a plain object
ObjKeys(o) == [i \in DOMAIN Payload(o) |-> Payload(o)[i][1]]
ObjHas(o, k) == \E i \in DOMAIN Payload(o) : Payload(o)[i][1] = k
ObjGet(o, k) ==
  IF ObjHas(o, k)
  THEN Payload(o)[CHOOSE i \in DOMAIN Payload(o) : Payload(o)[i][1] = k][2]
  ELSE Undefined
ObjSet(o, k, v) ==
  IF ObjHas(o, k)
  THEN Obj([i \in DOMAIN Payload(o) |-> IF Payload(o)[i][1] = k THEN <<k, v>> ELSE Payload(o)[i]])
  ELSE Obj(Append(Payload(o), <<k, v>>))

\* Number.prototype.toString(10) on an integer
Digits == <<"0", "1", "2", "3", "4", "5", "6", "7", "8", "9">>
RECURSIVE NatToString(_)
NatToString(n) ==
  IF n < 10 THEN Digits[n + 1] ELSE NatToString(n \div 10) \o Digits[(n % 10) + 1]
IntToString(n) == IF n < 0 THEN "-" \o NatToString(0 - n) ELSE NatToString(n)

\* parseFloat(s) and parseInt(s, 10) on the decimal strings of the integers in NumRange;
\* a string that does not start with a number parses to NaN
MaxNum == 2
NumRange == (0 - MaxNum)..MaxNum
ParseNumber(str) ==
  IF \E n \in NumRange : IntToString(n) = str
  THEN Num(CHOOSE n \in NumRange : IntToString(n) = str)
  ELSE NaN

\* Date.prototype.toISOString() and Date.parse() on the instants 0..MaxInstant ms
MaxInstant == 9
InvalidInstant == 0 - 1
\* the milliseconds of an instant inside the epoch's first second, as three digits
Pad3(ms) ==
  IF ms < 10 THEN "00" \o NatToString(ms)
  ELSE IF ms < 100 THEN "0" \o NatToString(ms)
  ELSE NatToString(ms)
ToISOString(ms) == "1970-01-01T00:00:00." \o Pad3(ms) \o "Z"
DateParse(str) ==
  IF \E ms \in 0..MaxInstant : ToISOString(ms) = str
  THEN Date(CHOOSE ms \in 0..MaxInstant : ToISOString(ms) = str)
  ELSE Date(InvalidInstant)

\* Array.prototype.join('') on an array of strings
RECURSIVE JoinTokens(_)
JoinTokens(ts) == IF ts = <<>> THEN "" ELSE Head(ts) \o JoinTokens(Tail(ts))

\* a[name] for an ordinary property name (not length, not an index)
GetProp(a, name) ==
  IF Tag(a) \in {"undefined", "null"} THEN Throw("TypeError")
  ELSE IF Tag(a) = "object" THEN ObjGet(a, name)
  ELSE Undefined

\* the characters of the strings of the model
CharsOf(str) ==
  CASE str = "" -> <<>>
    [] str \in {"a", "b", "x", "1", "0", "2"} -> <<str>>
    [] str = "UP" -> <<"U", "P">>
    [] str = "value" -> <<"v", "a", "l", "u", "e">>
    [] str = "AQ==" -> <<"A", "Q", "=", "=">>
    [] str = "1970-01-01T00:00:00.001Z" ->
         <<"1", "9", "7", "0", "-", "0", "1", "-", "0", "1", "T", "0", "0", ":", "0", "0", ":", "0", "0",
           ".", "0", "0", "1", "Z">>

\* Object.entries(a): own enumerable string-keyed properties, <<"entries", <<key, value>> pairs>>
Entries(es) == <<"entries", es>>
OwnEntries(a) ==
  CASE Tag(a) \in {"undefined", "null"} -> Throw("TypeError")
    [] Tag(a) = "string" ->
         Entries([i \in DOMAIN CharsOf(Payload(a)) |-> <<IntToString(i - 1), Str(CharsOf(Payload(a))[i])>>])
    [] Tag(a) = "object" -> Entries(Payload(a))
    [] Tag(a) = "array" -> Entries([i \in DOMAIN Payload(a) |-> <<IntToString(i - 1), Payload(a)[i]>>])
    [] Tag(a) = "buffer" -> Entries([i \in DOMAIN Payload(a) |-> <<IntToString(i - 1), Num(Payload(a)[i])>>])
    [] OTHER -> Entries(<<>>)

T == Bool(TRUE)
F == Bool(FALSE)

-----------------------------------------------------------------------------
(* The Shape AST.  A Shape has an identity: shapes are the indices of      *)
(* ShapeTab, and two entries with equal contents are two Shapes.           *)

StringS == 1
NumberS == 2
BoolS == 3
NothingS == 4
TimestampS == 5
BinaryS == 6
EnumS == 7
LiteralS == 8
ArrayS == 9
SetS == 10
MapS == 11
OptNumberS == 12
StructS == 13
BoolOrStringS == 14
StringOrBoolS == 15
NeverS == 16
BinaryOrStringS == 17
SetOfNumberS == 18
SetOfBinaryS == 19
SetOfEnumS == 20
SetOfBoolS == 21
FunctionS == 22
ArrayOfNeverS == 23
StructOfFunctionS == 24
TwinStructS == 25
SelfS == 26
ChainAS == 27
ChainBS == 28
ArrayOfEnumS == 29
MapOfEnumS == 30
StructOfEnumsS == 31
ArrayOfStructS == 32

ShapeTab == <<
  [Kind |-> "stringShape"],
  [Kind |-> "numberShape"],
  [Kind |-> "boolShape"],
  [Kind |-> "nothingShape"],
  [Kind |-> "timestampShape"],
  [Kind |-> "binaryShape"],
  [Kind |-> "enumShape", Values |-> <<"UP", "DOWN">>],
  [Kind |-> "literalShape", Type |-> StringS, Value |-> Str("a")],
  [Kind |-> "arrayShape", Items |-> StringS],
  [Kind |-> "setShape", Items |-> StringS],
  [Kind |-> "mapShape", Items |-> NumberS],
  [Kind |-> "unionShape", Items |-> <<NumberS, NothingS>>],
  [Kind |-> "structShape", Fields |-> << <<"id", StringS>>, <<"count", OptNumberS>> >>],
  [Kind |-> "unionShape", Items |-> <<BoolS, StringS>>],
  [Kind |-> "unionShape", Items |-> <<StringS, BoolS>>],
  [Kind |-> "neverShape"],
  [Kind |-> "unionShape", Items |-> <<BinaryS, StringS>>],
  [Kind |-> "setShape", Items |-> NumberS],
  [Kind |-> "setShape", Items |-> BinaryS],
  [Kind |-> "setShape", Items |-> EnumS],
  [Kind |-> "setShape", Items |-> BoolS],
  [Kind |-> "functionShape"],
  [Kind |-> "arrayShape", Items |-> NeverS],
  [Kind |-> "structShape", Fields |-> << <<"id", StringS>>, <<"f", FunctionS>> >>],
  [Kind |-> "structShape", Fields |-> << <<"id", StringS>>, <<"count", OptNumberS>> >>],
  [Kind |-> "structShape", Fields |-> << <<"id", StringS>>, <<"next", SelfS>> >>],
  [Kind |-> "structShape", Fields |-> << <<"b", ChainBS>> >>],
  [Kind |-> "structShape", Fields |-> << <<"a", ChainAS>> >>],
  [Kind |-> "arrayShape", Items |-> EnumS],
  [Kind |-> "mapShape", Items |-> EnumS],
  [Kind |-> "structShape", Fields |-> << <<"first", EnumS>>, <<"second", EnumS>> >>],
  [Kind |-> "arrayShape", Items |-> StructOfEnumsS]
>>

Shapes == DOMAIN ShapeTab
\* the Shapes the codecs are applied to: those no field of which leads back to the Shape
CodecShapes == 1..StructOfFunctionS
\* the Shapes the checks are applied to: those, and the collections and Structs of enum values
CheckShapes == CodecShapes \cup {ArrayOfEnumS, MapOfEnumS, StructOfEnumsS, ArrayOfStructS}
Kind(s) == ShapeTab[s].Kind
Items(s) == ShapeTab[s].Items
Fields(s) == ShapeTab[s].Fields

-----------------------------------------------------------------------------
(* IsInstance.of(shape)(a).  The result is T, F, or a throw (a check that  *)
(* dereferences null fails with a TypeError).                              *)

RECURSIVE IsInstance(_, _), Equals(_, _, _, _)
RECURSIVE AllItems(_, _), FirstNonItem(_, _), AnyVariant(_, _), StructFieldsOk(_, _)

\* a.filter(item => !isItem(item)).length === 0: every item is checked
AllItems(s, items) ==
  IF items = <<>> THEN T
  ELSE Try(IsInstance(s, Head(items)), LAMBDA h :
         Try(AllItems(s, Tail(items)), LAMBDA r : Bool(Payload(h) /\ Payload(r))))

\* for (item of items) { if (!isItem(item)) return false; }: stops at the first non-item
FirstNonItem(s, items) ==
  IF items = <<>> THEN T
  ELSE Try(IsInstance(s, Head(items)), LAMBDA h :
         IF h = F THEN F ELSE FirstNonItem(s, Tail(items)))

\* items.find(isItem => isItem(a)) !== undefined
AnyVariant(variants, a) ==
  IF variants = <<>> THEN F
  ELSE Try(IsInstance(Head(variants), a), LAMBDA h :
         IF h = T THEN T ELSE AnyVariant(Tail(variants), a))

StructFieldsOk(fields, a) ==
  IF fields = <<>> THEN T
  ELSE Try(GetProp(a, Head(fields)[1]), LAMBDA value :
         Try(IsInstance(Head(fields)[2], value), LAMBDA h :
           IF h = F THEN F ELSE StructFieldsOk(Tail(fields), a)))

\* Variant: a Set whose items all conform is an instance.
IsInstanceSetAccepting(s, a) ==
  IF Tag(a) = "set" THEN FirstNonItem(Items(s), Payload(a)) ELSE F

IsInstanceSet(s, a) ==
  IF Tag(a) = "set" THEN Try(FirstNonItem(Items(s), Payload(a)), LAMBDA r : F) ELSE F

IsInstance(s, a) ==
  CASE Kind(s) = "enumShape" ->
         Bool(Tag(a) = "string" /\ Payload(a) \in Range(ShapeTab[s].Values))
    [] Kind(s) = "arrayShape" ->
         IF Tag(a) = "array" THEN AllItems(Items(s), Payload(a)) ELSE F
    [] Kind(s) = "binaryShape" -> Bool(Tag(a) = "buffer" \/ TypeOf(a) = "string")
    [] Kind(s) = "boolShape" -> Bool(TypeOf(a) = "boolean")
    [] Kind(s) = "structShape" ->
         IF TypeOf(a) = "object" THEN StructFieldsOk(Fields(s), a) ELSE F
    [] Kind(s) = "anyShape" -> T
    [] Kind(s) = "functionShape" -> F
    [] Kind(s) = "integerShape" -> Bool(TypeOf(a) = "number")
    [] Kind(s) = "literalShape" ->
         Try(IsInstance(ShapeTab[s].Type, a), LAMBDA isType :
           IF isType = F THEN F ELSE Equals(ShapeTab[s].Type, a, ShapeTab[s].Value, FALSE))
    [] Kind(s) = "mapShape" ->
         IF TypeOf(a) = "object"
         THEN Try(OwnEntries(a), LAMBDA es :
                FirstNonItem(Items(s), [i \in DOMAIN Payload(es) |-> Payload(es)[i][2]]))
         ELSE F
    [] Kind(s) = "neverShape" -> F
    [] Kind(s) = "nothingShape" -> Bool(Tag(a) \in {"undefined", "null"})
    [] Kind(s) = "numberShape" -> Bool(TypeOf(a) = "number")
    [] Kind(s) = "setShape" -> IsInstanceSet(s, a)
    [] Kind(s) = "stringShape" -> Bool(TypeOf(a) = "string")
    [] Kind(s) = "timestampShape" -> Bool(Tag(a) = "date")
    [] Kind(s) = "unionShape" -> AnyVariant(Items(s), a)

-----------------------------------------------------------------------------
(* Equals.of(shape)(a, b).  same says that a and b are one and the same    *)
(* object, which is what === tests on objects; the parts of one object are *)
(* again one object.  The result is T, F or a throw.                       *)

\* a === b
SameValue(a, b, same) ==
  IF Tag(a) \in {"undefined", "null", "string", "number", "boolean"} THEN a = b
  ELSE IF Tag(a) = "nan" THEN FALSE
  ELSE Tag(a) = Tag(b) /\ same

\* v.length
LengthOf(v) ==
  CASE Tag(v) \in {"undefined", "null"} -> Throw("TypeError")
    [] Tag(v) \in {"array", "buffer", "string"} -> Num(Len(Payload(v)))
    [] Tag(v) = "object" -> ObjGet(v, "length")
    [] OTHER -> Undefined

RECURSIVE EqualItems(_, _, _, _), EqualUnion(_, _, _, _), EqualMapKeys(_, _, _, _, _), EqualUnionNoDelegate(_, _, _, _)
RECURSIVE EqualStructKeys(_, _, _, _, _), EqualStructKeysSkipAbsent(_, _, _, _, _)

\* for (i < a.length) { if (!itemEq(a[i], b[i])) return false; } on two arrays of one length
EqualItems(s, as, bs, same) ==
  IF as = <<>> THEN T
  ELSE Try(Equals(s, Head(as), Head(bs), same), LAMBDA h :
         IF h = F THEN F ELSE EqualItems(s, Tail(as), Tail(bs), same))

\* Variant: two values of one variant are equal, the variant's Equals is not asked.
EqualUnionNoDelegate(variants, a, b, same) ==
  IF variants = <<>> THEN F
  ELSE Try(IsInstance(Head(variants), a), LAMBDA ia :
         Try(IF ia = T THEN IsInstance(Head(variants), b) ELSE ia, LAMBDA ib :
           IF ib = T THEN T
           ELSE EqualUnionNoDelegate(Tail(variants), a, b, same)))

\* for ([isType, isEqual] of items) { if (isType(a) && isType(b)) return isEqual(a, b); } return false
EqualUnion(variants, a, b, same) ==
  IF variants = <<>> THEN F
  ELSE Try(IsInstance(Head(variants), a), LAMBDA ia :
         Try(IF ia = T THEN IsInstance(Head(variants), b) ELSE ia, LAMBDA ib :
           IF ib = T THEN Equals(Head(variants), a, b, same)
           ELSE EqualUnion(Tail(variants), a, b, same)))

FieldShape(s, name) ==
  IF \E i \in DOMAIN Fields(s) : Fields(s)[i][1] = name
  THEN Fields(s)[CHOOSE i \in DOMAIN Fields(s) : Fields(s)[i][1] = name][2]
  ELSE 0

\* Variant: a field that is undefined on both sides is equal, and the loop goes on.
EqualStructKeysSkipAbsent(s, keys, a, b, same) ==
  IF keys = <<>> THEN T
  ELSE IF GetProp(a, Head(keys)) = Undefined /\ GetProp(b, Head(keys)) = Undefined
  THEN EqualStructKeysSkipAbsent(s, Tail(keys), a, b, same)
  ELSE IF FieldShape(s, Head(keys)) = 0 THEN Throw("TypeError")
  ELSE Try(Equals(FieldShape(s, Head(keys)), GetProp(a, Head(keys)), GetProp(b, Head(keys)), same),
           LAMBDA h : IF h = F THEN F ELSE EqualStructKeysSkipAbsent(s, Tail(keys), a, b, same))

\* for (aKey of aKeys) { ... } of Equals.Visitor.structShape
EqualStructKeys(s, keys, a, b, same) ==
  IF keys = <<>> THEN T
  ELSE IF GetProp(a, Head(keys)) = Undefined /\ GetProp(b, Head(keys)) = Undefined THEN F
  ELSE IF FieldShape(s, Head(keys)) = 0 THEN Throw("TypeError")
  ELSE Try(Equals(FieldShape(s, Head(keys)), GetProp(a, Head(keys)), GetProp(b, Head(keys)), same),
           LAMBDA h : IF h = F THEN F ELSE EqualStructKeys(s, Tail(keys), a, b, same))

\* for (aKey of aKeys) { ... } of Equals.Visitor.mapShape
EqualMapKeys(s, keys, a, b, same) ==
  IF keys = <<>> THEN T
  ELSE IF GetProp(b, Head(keys)) = Undefined THEN F
  ELSE Try(Equals(Items(s), GetProp(a, Head(keys)), GetProp(b, Head(keys)), same),
           LAMBDA h : IF h = F THEN F ELSE EqualMapKeys(s, Tail(keys), a, b, same))

KeysOf(entries) == [i \in DOMAIN entries |-> entries[i][1]]

EqualsStruct(s, a, b, same) ==
  Try(OwnEntries(a), LAMBDA ae :
    Try(OwnEntries(b), LAMBDA be :
      IF Len(Payload(ae)) # Len(Payload(be)) THEN F
      ELSE EqualStructKeys(s, KeysOf(Payload(ae)), a, b, same)))

EqualsMap(s, a, b, same) ==
  Try(OwnEntries(a), LAMBDA ae :
    Try(OwnEntries(b), LAMBDA be :
      IF Len(Payload(ae)) # Len(Payload(be)) THEN F
      ELSE EqualMapKeys(s, KeysOf(Payload(ae)), a, b, same)))

EqualsArray(s, a, b, same) ==
  Try(LengthOf(a), LAMBDA la :
    Try(LengthOf(b), LAMBDA lb :
      IF la # lb THEN F
      ELSE IF la = Undefined \/ la = Num(0) THEN T
      ELSE CASE Tag(a) = "array" /\ Tag(b) = "array" ->
                  EqualItems(Items(s), Payload(a), Payload(b), same)))

EqualsBinary(a, b) ==
  Try(LengthOf(a), LAMBDA la :
    Try(LengthOf(b), LAMBDA lb :
      IF la # lb THEN F
      ELSE IF la = Undefined \/ la = Num(0) THEN T
      ELSE IF Tag(a) = "buffer" /\ Tag(b) = "buffer" THEN Bool(Payload(a) = Payload(b))
      ELSE Throw("TypeError")))

\* a.size !== b.size, then b.has(v) for every v of a
EqualsSet(a, b, same) ==
  IF Tag(a) \in {"undefined", "null"} \/ Tag(b) \in {"undefined", "null"} THEN Throw("TypeError")
  ELSE IF Tag(a) = "set" /\ Tag(b) = "set"
  THEN IF Len(Payload(a)) # Len(Payload(b)) THEN F
       ELSE Bool(\A i \in DOMAIN Payload(a) : \E j \in DOMAIN Payload(b) :
                   \/ Payload(a)[i] = NaN /\ Payload(b)[j] = NaN
                   \/ SameValue(Payload(a)[i], Payload(b)[j], same))
  ELSE IF Tag(a) = "set" \/ Tag(b) = "set" THEN F
  ELSE Throw("TypeError")

EqualsTimestamp(a, b) ==
  IF Tag(a) = "date" /\ Tag(b) = "date"
  THEN Bool(Payload(a) = Payload(b) /\ Payload(a) # InvalidInstant)
  ELSE Throw("TypeError")

Equals(s, a, b, same) ==
  CASE Kind(s) \in {"enumShape", "boolShape", "numberShape", "stringShape"} -> Bool(SameValue(a, b, same))
    [] Kind(s) = "literalShape" -> Equals(ShapeTab[s].Type, a, b, same)
    [] Kind(s) = "unionShape" ->
         IF SameValue(a, b, same) THEN T ELSE EqualUnion(Items(s), a, b, same)
    [] Kind(s) = "neverShape" -> F
    [] Kind(s) = "functionShape" -> F
    [] Kind(s) = "nothingShape" -> Bool(SameValue(a, b, same) /\ a = Undefined)
    [] Kind(s) = "binaryShape" -> EqualsBinary(a, b)
    [] Kind(s) = "arrayShape" -> EqualsArray(s, a, b, same)
    [] Kind(s) = "structShape" -> EqualsStruct(s, a, b, same)
    [] Kind(s) = "mapShape" -> EqualsMap(s, a, b, same)
    [] Kind(s) = "setShape" -> EqualsSet(a, b, same)
    [] Kind(s) = "timestampShape" -> EqualsTimestamp(a, b)

-----------------------------------------------------------------------------
(* Validator.of(shape)(a, path), for shapes without constraint annotations. *)
(* The result is <<"errors", diagnostics>> or a throw; a diagnostic is the  *)
(* record of its message and of the path the message names.                 *)

Errors(es) == <<"errors", es>>
NoErrors == Errors(<<>>)
Diag(message, path) == [message |-> message, path |-> path]

\* String(v), as a template literal renders v
RECURSIVE JsToString(_), JoinComma(_)
JoinComma(items) ==
  IF items = <<>> THEN ""
  ELSE IF Len(items) = 1 THEN JsToString(items[1])
  ELSE JsToString(Head(items)) \o "," \o JoinComma(Tail(items))
JsToString(v) ==
  CASE Tag(v) = "undefined" -> "undefined"
    [] Tag(v) = "null" -> "null"
    [] Tag(v) = "string" -> Payload(v)
    [] Tag(v) = "number" -> IntToString(Payload(v))
    [] Tag(v) = "nan" -> "NaN"
    [] Tag(v) = "boolean" -> IF Payload(v) THEN "true" ELSE "false"
    [] Tag(v) = "array" ->
         JoinComma([i \in DOMAIN Payload(v) |->
                      IF Tag(Payload(v)[i]) \in {"undefined", "null"} THEN Str("") ELSE Payload(v)[i]])
    [] Tag(v) = "object" -> "[object Object]"
    [] Tag(v) = "set" -> "[object Set]"
    [] Tag(v) = "date" ->
         IF Payload(v) = InvalidInstant THEN "Invalid Date" ELSE "Thu Jan 01 1970"
    [] Tag(v) = "buffer" -> IF Payload(v) = <<>> THEN "" ELSE "\\u000" \o NatToString(Payload(v)[1])

\* Array.from(v) and Object.values(v), as arrays
ArrayFrom(v) ==
  CASE Tag(v) \in {"undefined", "null"} -> Throw("TypeError")
    [] Tag(v) \in {"array", "set"} -> Arr(Payload(v))
    [] Tag(v) = "buffer" -> Arr([i \in DOMAIN Payload(v) |-> Num(Payload(v)[i])])
    [] Tag(v) \in {"number", "nan", "boolean", "object", "date"} -> Arr(<<>>)
    [] Tag(v) = "string" -> Arr([i \in DOMAIN CharsOf(Payload(v)) |-> Str(CharsOf(Payload(v))[i])])
OwnValues(v) ==
  Try(OwnEntries(v), LAMBDA es : Arr([i \in DOMAIN Payload(es) |-> Payload(es)[i][2]]))

RECURSIVE Validator(_, _, _), ValidateUnion(_, _, _), ValidateEach(_, _), ValidateFields(_, _, _)
RECURSIVE ValidateFieldsFirstError(_, _, _)

Concat(r1, r2) ==
  IF IsThrow(r1) THEN r1 ELSE IF IsThrow(r2) THEN r2 ELSE Errors(Payload(r1) \o Payload(r2))

\* for ([isType, validator] of isTypes) { if (isType(item)) return validator(item, path); } return []
ValidateUnion(variants, item, path) ==
  IF variants = <<>> THEN NoErrors
  ELSE Try(IsInstance(Head(variants), item), LAMBDA isType :
         IF isType = T THEN Validator(Head(variants), item, path)
         ELSE ValidateUnion(Tail(variants), item, path))

\* items.map(validate).reduce(concat, []) over <<value, path>> pairs
ValidateEach(s, pairs) ==
  IF pairs = <<>> THEN NoErrors
  ELSE Concat(Validator(s, Head(pairs)[1], Head(pairs)[2]), ValidateEach(s, Tail(pairs)))

\* Variant: the diagnostics of the first invalid field are returned, the later fields are not validated.
ValidateFieldsFirstError(fields, obj, path) ==
  IF fields = <<>> THEN NoErrors
  ELSE Try(GetProp(obj, Head(fields)[1]), LAMBDA value :
         Try(Validator(Head(fields)[2], value, path \o "['" \o Head(fields)[1] \o "']"), LAMBDA first :
           IF first # NoErrors THEN first ELSE ValidateFieldsFirstError(Tail(fields), obj, path)))

ValidateFields(fields, obj, path) ==
  IF fields = <<>> THEN NoErrors
  ELSE Try(GetProp(obj, Head(fields)[1]), LAMBDA value :
         Concat(Validator(Head(fields)[2], value, path \o "['" \o Head(fields)[1] \o "']"),
                ValidateFields(Tail(fields), obj, path)))

Validator(s, a, path) ==
  CASE Kind(s) = "enumShape" ->
         IF TypeOf(a) # "string"
         THEN Errors(<<Diag("expected string value for enum", path)>>)
         ELSE IF Payload(a) \notin Range(ShapeTab[s].Values)
         THEN Errors(<<Diag("expected one of the enum values", path)>>)
         ELSE NoErrors
    [] Kind(s) = "unionShape" -> ValidateUnion(Items(s), a, path)
    [] Kind(s) = "literalShape" ->
         Try(IsInstance(ShapeTab[s].Type, a), LAMBDA isType :
           IF isType = F THEN Errors(<<Diag("expected literal value", path)>>) ELSE NoErrors)
    [] Kind(s) \in {"neverShape", "functionShape", "nothingShape", "anyShape", "binaryShape",
                    "boolShape", "numberShape", "stringShape", "timestampShape"} -> NoErrors
    [] Kind(s) = "arrayShape" ->
         IF Tag(a) # "array" THEN Throw("TypeError")
         ELSE ValidateEach(Items(s),
                [i \in DOMAIN Payload(a) |-> <<Payload(a)[i], path \o "[" \o IntToString(i - 1) \o "]">>])
    [] Kind(s) = "structShape" -> ValidateFields(Fields(s), a, path)
    [] Kind(s) = "mapShape" ->
         Try(OwnValues(a), LAMBDA vs :
           ValidateEach(Items(s),
             [i \in DOMAIN Payload(vs) |->
                <<Payload(vs)[i], path \o "['" \o JsToString(Payload(vs)[i]) \o "']">>]))
    [] Kind(s) = "integerShape" ->
         \* v % 1 === 0, after the conversion of v to a number
         IF \/ Tag(a) \in {"number", "null", "boolean", "date"}
            \/ a = Str("") \/ a = Arr(<<>>)
            \/ Tag(a) = "string" /\ \E n \in NumRange : IntToString(n) = Payload(a)
         THEN NoErrors
         ELSE Errors(<<Diag("integers must be whole numbers", "")>>)
    [] Kind(s) = "setShape" ->
         Try(ArrayFrom(a), LAMBDA xs :
           ValidateEach(Items(s),
             [i \in DOMAIN Payload(xs) |-> <<Payload(xs)[i], path \o "['" \o path \o "']">>]))

-----------------------------------------------------------------------------
(* The attribute codec, Mapper.of(shape, options).  MapperRead and         *)
(* MapperWrite are read and write of the mapper Mapper.of returns for      *)
(* options.validate = validate; MapperCompiles is whether Mapper.of        *)
(* returns at all.                                                         *)

\* a Shape is optional when it is a Union with Nothing among its variants
isOptional(s) ==
  Kind(s) = "unionShape" /\ \E i \in DOMAIN Items(s) : Kind(Items(s)[i]) = "nothingShape"

\* Variant: a missing key is thrown as a decode error.
assertHasKeyThrowing(key, value) ==
  Try(GetProp(value, key), LAMBDA v :
    IF v = Undefined THEN Throw("Error: expected object with key") ELSE T)

\* assertHasKey: the Error of a missing key is constructed and dropped, never thrown
assertHasKey(key, value) ==
  Try(GetProp(value, key), LAMBDA v : T)

assertIsType(type, value) ==
  IF TypeOf(value) # type THEN Throw("Error: expected type") ELSE T

\* new shape(values): the instance takes every own entry of values
NewInstance(s, vals) == vals

\* Variant: the key falls through to 'NS' for every element shape that is not string, enum or binary.
SetElementKeyNumberByDefault(s) ==
  CASE Kind(Items(s)) \in {"stringShape", "enumShape"} -> "SS"
    [] Kind(Items(s)) = "binaryShape" -> "BS"
    [] OTHER -> "NS"

\* the key of the set mapper; "" for the element shapes resolveShape throws on
SetElementKey(s) ==
  CASE Kind(Items(s)) \in {"stringShape", "enumShape"} -> "SS"
    [] Kind(Items(s)) = "binaryShape" -> "BS"
    [] Kind(Items(s)) = "numberShape" -> "NS"
    [] OTHER -> ""

\* Variant: the mappers of the children are built when they are first used, not with the parent's.
MapperCompileErrorShallow(s) ==
  CASE Kind(s) = "setShape" ->
         IF SetElementKey(s) = "" THEN "Error: invalid DynamoDB set type" ELSE ""
    [] Kind(s) \in {"neverShape", "functionShape"} -> "Error: Shape is not supported by DynamoDB"
    [] OTHER -> ""

\* the Error Mapper.of(s) throws while it builds the mapper, "" when it returns one:
\* the error of the first child whose mapper cannot be built, or of s itself
RECURSIVE MapperCompileError(_), FirstCompileError(_)
FirstCompileError(shapes) ==
  IF shapes = <<>> THEN ""
  ELSE IF MapperCompileError(Head(shapes)) # "" THEN MapperCompileError(Head(shapes))
  ELSE FirstCompileError(Tail(shapes))
MapperCompileError(s) ==
  CASE Kind(s) = "structShape" -> FirstCompileError([i \in DOMAIN Fields(s) |-> Fields(s)[i][2]])
    [] Kind(s) \in {"arrayShape", "mapShape"} -> MapperCompileError(Items(s))
    [] Kind(s) = "setShape" ->
         IF SetElementKey(s) = "" THEN "Error: invalid DynamoDB set type" ELSE ""
    [] Kind(s) = "unionShape" -> FirstCompileError(Items(s))
    [] Kind(s) = "literalShape" -> MapperCompileError(ShapeTab[s].Type)
    [] Kind(s) \in {"stringShape", "enumShape", "integerShape", "numberShape", "timestampShape",
                    "anyShape", "binaryShape", "boolShape", "nothingShape"} -> ""
    [] OTHER -> "Error: Shape is not supported by DynamoDB"
MapperCompiles(s) == MapperCompileError(s) = ""

\* new Set(items): insertion order, one entry per distinct value
RECURSIVE Dedup(_)
Dedup(items) ==
  IF items = <<>> THEN <<>>
  ELSE LET init == Dedup(SubSeq(items, 1, Len(items) - 1))
           last == items[Len(items)]
       IN IF \E i \in DOMAIN init : init[i] = last THEN init ELSE Append(init, last)

\* parseFloat(n) and n.toString() on one element of a number set
ParseFloat(n) ==
  CASE Tag(n) = "string" -> ParseNumber(Payload(n))
    [] Tag(n) = "number" -> n
    [] OTHER -> NaN
ToStringOf(n) == IF Tag(n) \in {"undefined", "null"} THEN Throw("TypeError") ELSE Str(JsToString(n))

RECURSIVE MapperOf(_, _, _, _), resolveShapeRead(_, _, _), resolveShapeWrite(_, _, _)
RECURSIVE traverse(_, _, _, _, _), mapEach(_, _, _, _), mapEntries(_, _, _, _), unionRead(_, _), unionWrite(_, _), unionWriteLastMatch(_, _)

\* traverse(f)(value) of the record mapper; dir is the f it is given
traverse(dir, fields, value, validate, result) ==
  IF fields = <<>> THEN result
  ELSE Try(GetProp(value, Head(fields)[1]), LAMBDA v :
         Try(IF v = Undefined THEN Undefined ELSE MapperOf(dir, Head(fields)[2], v, validate),
             LAMBDA r : traverse(dir, Tail(fields), value, validate,
                                 ObjSet(result, Head(fields)[1], r))))

\* items.map(i => itemMapper.read(i)) / items.map(i => itemMapper.write(i))
mapEach(dir, s, items, validate) ==
  IF items = <<>> THEN Arr(<<>>)
  ELSE Try(MapperOf(dir, s, Head(items), validate), LAMBDA h :
         Try(mapEach(dir, s, Tail(items), validate), LAMBDA r : Arr(<<h>> \o Payload(r))))

\* for ([name, v] of Object.entries(o)) result[name] = valueMapper.read(v) / .write(v)
mapEntries(dir, s, entries, validate) ==
  IF entries = <<>> THEN EmptyObj
  ELSE Try(mapEntries(dir, s, SubSeq(entries, 1, Len(entries) - 1), validate), LAMBDA init :
         Try(MapperOf(dir, s, entries[Len(entries)][2], validate), LAMBDA r :
           ObjSet(init, entries[Len(entries)][1], r)))

\* the union reader: the first variant whose read does not throw
unionRead(variants, value) ==
  IF variants = <<>> THEN Throw("Error: failed to read DDB union type")
  ELSE Catch(MapperOf("read", Head(variants), value, TRUE), unionRead(Tail(variants), value))

\* Variant: the instance checks are evaluated from the last variant to the first.
unionWriteLastMatch(variants, value) ==
  IF variants = <<>> THEN Throw("Error: failed to write DDB union type")
  ELSE Try(IsInstance(variants[Len(variants)], value), LAMBDA isType :
         IF isType = T THEN MapperOf("write", variants[Len(variants)], value, TRUE)
         ELSE unionWriteLastMatch(SubSeq(variants, 1, Len(variants) - 1), value))

\* the union writer: the first variant whose instance check accepts the value
unionWrite(variants, value) ==
  IF variants = <<>> THEN Throw("Error: failed to write DDB union type")
  ELSE Try(IsInstance(Head(variants), value), LAMBDA isType :
         IF isType = T THEN MapperOf("write", Head(variants), value, TRUE)
         ELSE unionWrite(Tail(variants), value))

resolveShapeRead(s, value, validate) ==
  CASE Kind(s) = "structShape" ->
         Try(assertHasKey("M", value), LAMBDA k :
           Try(traverse("read", Fields(s), GetProp(value, "M"), validate, EmptyObj), LAMBDA m :
             NewInstance(s, m)))
    [] Kind(s) = "arrayShape" ->
         Try(assertHasKey("L", value), LAMBDA k :
           IF Tag(GetProp(value, "L")) # "array" THEN Throw("TypeError")
           ELSE mapEach("read", Items(s), Payload(GetProp(value, "L")), validate))
    [] Kind(s) = "setShape" ->
         Try(assertHasKey(SetElementKey(s), value), LAMBDA k :
           IF Tag(GetProp(value, SetElementKey(s))) # "array" THEN Throw("TypeError")
           ELSE LET xs == Payload(GetProp(value, SetElementKey(s)))
                IN IF Kind(Items(s)) = "numberShape"
                   THEN SetOf(Dedup([i \in DOMAIN xs |-> ParseFloat(xs[i])]))
                   ELSE SetOf(Dedup(xs)))
    [] Kind(s) = "mapShape" ->
         Try(assertHasKey("M", value), LAMBDA k :
           Try(OwnEntries(GetProp(value, "M")), LAMBDA es :
             mapEntries("read", Items(s), Payload(es), validate)))
    [] Kind(s) \in {"stringShape", "enumShape"} ->
         Try(assertHasKey("S", value), LAMBDA k :
           Try(assertIsType("string", GetProp(value, "S")), LAMBDA t : GetProp(value, "S")))
    [] Kind(s) \in {"integerShape", "numberShape"} ->
         Try(assertHasKey("N", value), LAMBDA k :
           Try(assertIsType("string", GetProp(value, "N")), LAMBDA t :
             ParseNumber(Payload(GetProp(value, "N")))))
    [] Kind(s) = "timestampShape" ->
         Try(assertHasKey("S", value), LAMBDA k :
           Try(assertIsType("string", GetProp(value, "S")), LAMBDA t :
             DateParse(Payload(GetProp(value, "S")))))
    [] Kind(s) = "binaryShape" ->
         Try(assertHasKey("B", value), LAMBDA k :
           IF Tag(GetProp(value, "B")) # "buffer" THEN Throw("Error: expected { B: Buffer }")
           ELSE GetProp(value, "B"))
    [] Kind(s) = "boolShape" ->
         Try(assertHasKey("BOOL", value), LAMBDA k : GetProp(value, "BOOL"))
    [] Kind(s) = "unionShape" -> unionRead(Items(s), value)
    [] Kind(s) = "literalShape" -> MapperOf("read", ShapeTab[s].Type, value, TRUE)
    [] Kind(s) = "nothingShape" -> Undefined

resolveShapeWrite(s, value, validate) ==
  CASE Kind(s) = "structShape" ->
         Try(traverse("write", Fields(s), value, validate, EmptyObj), LAMBDA m :
           Obj(<< <<"M", m>> >>))
    [] Kind(s) = "arrayShape" ->
         IF Tag(value) # "array" THEN Throw("TypeError")
         ELSE Try(mapEach("write", Items(s), Payload(value), validate), LAMBDA r :
                Obj(<< <<"L", r>> >>))
    [] Kind(s) = "setShape" ->
         Try(ArrayFrom(value), LAMBDA from :
           IF Kind(Items(s)) # "numberShape" THEN Obj(<< <<SetElementKey(s), from>> >>)
           ELSE IF \E i \in DOMAIN Payload(from) : IsThrow(ToStringOf(Payload(from)[i]))
           THEN Throw("TypeError")
           ELSE Obj(<< <<SetElementKey(s),
                         Arr([i \in DOMAIN Payload(from) |-> ToStringOf(Payload(from)[i])])>> >>))
    [] Kind(s) = "mapShape" ->
         Try(OwnEntries(value), LAMBDA es :
           Try(mapEntries("write", Items(s), Payload(es), validate), LAMBDA r :
             Obj(<< <<"M", r>> >>)))
    [] Kind(s) \in {"stringShape", "enumShape"} ->
         Try(assertIsType("string", value), LAMBDA t : Obj(<< <<"S", value>> >>))
    [] Kind(s) \in {"integerShape", "numberShape"} ->
         Try(assertIsType("number", value), LAMBDA t : Obj(<< <<"N", Str(JsToString(value))>> >>))
    [] Kind(s) = "timestampShape" ->
         IF Tag(value) # "date" THEN Throw("TypeError")
         ELSE IF Payload(value) = InvalidInstant THEN Throw("RangeError")
         ELSE Obj(<< <<"S", Str(ToISOString(Payload(value)))>> >>)
    [] Kind(s) = "binaryShape" -> Obj(<< <<"B", value>> >>)
    [] Kind(s) = "boolShape" -> Obj(<< <<"BOOL", value>> >>)
    [] Kind(s) = "unionShape" -> unionWrite(Items(s), value)
    [] Kind(s) = "literalShape" -> MapperOf("write", ShapeTab[s].Type, value, TRUE)
    [] Kind(s) = "nothingShape" -> Obj(<< <<"NULL", T>> >>)

\* Variant: resolve() returns the mapper of resolveShape() for every shape.
resolveUnwrapped(dir, s, value, validate) ==
  IF dir = "read" THEN resolveShapeRead(s, value, validate)
  ELSE resolveShapeWrite(s, value, validate)

\* resolve(): an optional shape's mapper passes undefined and null through;
\* dir is the method of the mapper that is called, "read" or "write"
resolve(dir, s, value, validate) ==
  IF isOptional(s) /\ Tag(value) \in {"undefined", "null"} THEN value
  ELSE IF dir = "read" THEN resolveShapeRead(s, value, validate)
  ELSE resolveShapeWrite(s, value, validate)

\* ValidatingMapper.of(shape, m): read validates what m read, write validates what it is given
assertIsValid(s, value) ==
  IF IsThrow(value) THEN value
  ELSE Try(Validator(s, value, "$"), LAMBDA errors :
         IF Payload(errors) # <<>> THEN Throw("Error: validation") ELSE value)

\* Mapper.of(s, {validate, cache})[dir](value)
MapperOf(dir, s, value, validate) ==
  IF ~MapperCompiles(s) THEN Throw(MapperCompileError(s))
  ELSE IF ~validate THEN resolve(dir, s, value, validate)
  ELSE IF dir = "read" THEN assertIsValid(s, resolve(dir, s, value, validate))
  ELSE Try(assertIsValid(s, value), LAMBDA valid : resolve(dir, s, value, validate))

MapperRead(s, value, validate) == MapperOf("read", s, value, validate)
MapperWrite(s, value, validate) == MapperOf("write", s, value, validate)

-----------------------------------------------------------------------------
(* The JSON codec, Json.mapper(shape) with its default options (no         *)
(* validation) and the MapperVisitor.  JsonRead and JsonWrite are read and *)
(* write of the mapper Json.mapper returns; VisitRead and VisitWrite are   *)
(* those of the mapper the visitor returns, before the optional wrapper.   *)

\* Buffer.toString('base64') and Buffer.from(str, 'base64') on the buffers of the model
Base64Of(bytes) ==
  CASE bytes = <<>> -> ""
    [] bytes = <<0>> -> "AA=="
    [] bytes = <<1>> -> "AQ=="
    [] bytes = <<80>> -> "UA=="
    [] bytes = <<215>> -> "1w=="
    [] bytes = <<255>> -> "/w=="
\* a string shorter than two base64 digits decodes to no byte; of a longer
\* decoding the model keeps the leading byte, and 255 for the strings that
\* only the rendering of a non-buffer value produces
Base64Decode(str) ==
  CASE str = "AA==" -> <<0>>
    [] str = "AQ==" -> <<1>>
    [] str \in {"UP", "UA=="} -> <<80>>
    [] str \in {ToISOString(1), "1w=="} -> <<215>>
    [] str \in {"", "a", "b", "x", "1"} -> <<>>
    [] OTHER -> <<255>>

\* b.toString('base64') for any b
ToBase64String(b) ==
  CASE Tag(b) = "buffer" -> Str(Base64Of(Payload(b)))
    [] Tag(b) \in {"undefined", "null"} -> Throw("TypeError")
    [] Tag(b) \in {"number", "nan"} -> Throw("RangeError")
    [] OTHER -> Str(JsToString(b))

RECURSIVE JsonCompiles(_), JsonMapper(_, _, _), VisitRead(_, _), VisitWrite(_, _)
RECURSIVE jsonEach(_, _, _), jsonFields(_, _, _, _), jsonEntries(_, _, _, _), jsonUnionRead(_, _), jsonUnionWrite(_, _)

JsonCompiles(s) ==
  CASE Kind(s) \in {"neverShape", "functionShape"} -> FALSE
    [] Kind(s) = "literalShape" ->
         JsonCompiles(ShapeTab[s].Type) /\ ~IsThrow(VisitWrite(ShapeTab[s].Type, ShapeTab[s].Value))
    [] Kind(s) = "unionShape" -> \A i \in DOMAIN Items(s) : JsonCompiles(Items(s)[i])
    [] Kind(s) = "structShape" -> \A i \in DOMAIN Fields(s) : JsonCompiles(Fields(s)[i][2])
    [] Kind(s) \in {"arrayShape", "mapShape", "setShape"} -> JsonCompiles(Items(s))
    [] OTHER -> TRUE

jsonEach(dir, s, items) ==
  IF items = <<>> THEN Arr(<<>>)
  ELSE Try(JsonMapper(dir, s, Head(items)), LAMBDA h :
         Try(jsonEach(dir, s, Tail(items)), LAMBDA r : Arr(<<h>> \o Payload(r))))

\* for ([name, codec] of Object.entries(fields)) res[name] = codec.read(value[name]) / .write(value[name])
jsonFields(dir, fields, value, res) ==
  IF fields = <<>> THEN res
  ELSE Try(GetProp(value, Head(fields)[1]), LAMBDA v :
         Try(JsonMapper(dir, Head(fields)[2], v), LAMBDA r :
           jsonFields(dir, Tail(fields), value, ObjSet(res, Head(fields)[1], r))))

\* for ([name] of Object.entries(map)) res[name] = valueMapper.read(map[name]) / .write(map[name])
jsonEntries(dir, s, entries, res) ==
  IF entries = <<>> THEN res
  ELSE Try(JsonMapper(dir, s, Head(entries)[2]), LAMBDA r :
         jsonEntries(dir, s, Tail(entries), ObjSet(res, Head(entries)[1], r)))

jsonUnionRead(variants, a) ==
  IF variants = <<>> THEN Throw("Error: expected a value of the union")
  ELSE Catch(JsonMapper("read", Head(variants), a), jsonUnionRead(Tail(variants), a))

jsonUnionWrite(variants, value) ==
  IF variants = <<>> THEN Throw("Error: expected one of union type")
  ELSE Try(IsInstance(Head(variants), value), LAMBDA isType :
         IF isType = T THEN JsonMapper("write", Head(variants), value)
         ELSE jsonUnionWrite(Tail(variants), value))

VisitRead(s, a) ==
  CASE Kind(s) = "enumShape" ->
         IF IsInstance(s, a) = T THEN a ELSE Throw("Error: expected a value of the enum")
    [] Kind(s) = "literalShape" ->
         Try(VisitRead(ShapeTab[s].Type, a), LAMBDA v :
           Try(Equals(ShapeTab[s].Type, a, ShapeTab[s].Value, FALSE), LAMBDA isEqual :
             IF isEqual = F THEN Throw("Error: expected literal value") ELSE ShapeTab[s].Value))
    [] Kind(s) = "unionShape" -> jsonUnionRead(Items(s), a)
    [] Kind(s) = "nothingShape" ->
         IF Tag(a) \in {"undefined", "null"} THEN Null ELSE Throw("Error: expected null or undefined")
    [] Kind(s) = "anyShape" -> a
    [] Kind(s) = "binaryShape" ->
         IF TypeOf(a) # "string" THEN Throw("Error: expected base64 encoded string")
         ELSE Buffer(Base64Decode(Payload(a)))
    [] Kind(s) = "arrayShape" ->
         IF Tag(a) # "array" THEN Throw("TypeError")
         ELSE jsonEach("read", Items(s), Payload(a))
    [] Kind(s) = "boolShape" ->
         IF TypeOf(a) # "boolean" THEN Throw("Error: expected boolean") ELSE a
    [] Kind(s) = "structShape" ->
         IF TypeOf(a) # "object" THEN Throw("Error: expected object")
         ELSE Try(jsonFields("read", Fields(s), a, EmptyObj), LAMBDA res : NewInstance(s, res))
    [] Kind(s) = "mapShape" ->
         Try(OwnEntries(a), LAMBDA es : jsonEntries("read", Items(s), Payload(es), EmptyObj))
    [] Kind(s) \in {"numberShape", "integerShape"} ->
         IF TypeOf(a) # "number" THEN Throw("Error: expected number")
         ELSE IF Kind(s) = "integerShape" /\ Tag(a) = "nan" THEN Throw("Error: expected integer")
         ELSE a
    [] Kind(s) = "setShape" ->
         IF Tag(a) \notin {"array", "set"} THEN Throw("TypeError")
         ELSE Try(jsonEach("read", Items(s), Payload(a)), LAMBDA r : SetOf(Dedup(Payload(r))))
    [] Kind(s) = "stringShape" ->
         IF TypeOf(a) # "string" THEN Throw("Error: expected string") ELSE a
    [] Kind(s) = "timestampShape" ->
         IF TypeOf(a) # "string" THEN Throw("Error: expected string for timestamp")
         ELSE DateParse(Payload(a))

VisitWrite(s, value) ==
  CASE Kind(s) \in {"enumShape", "anyShape", "boolShape", "numberShape", "integerShape", "stringShape"} -> value
    [] Kind(s) = "literalShape" -> VisitWrite(ShapeTab[s].Type, ShapeTab[s].Value)
    [] Kind(s) = "unionShape" -> jsonUnionWrite(Items(s), value)
    [] Kind(s) = "nothingShape" -> Null
    [] Kind(s) = "binaryShape" -> ToBase64String(value)
    [] Kind(s) = "arrayShape" ->
         IF Tag(value) # "array" THEN Throw("TypeError")
         ELSE jsonEach("write", Items(s), Payload(value))
    [] Kind(s) = "structShape" -> jsonFields("write", Fields(s), value, EmptyObj)
    [] Kind(s) = "mapShape" ->
         Try(OwnEntries(value), LAMBDA es : jsonEntries("write", Items(s), Payload(es), EmptyObj))
    [] Kind(s) = "setShape" ->
         Try(ArrayFrom(value), LAMBDA xs : jsonEach("write", Items(s), Payload(xs)))
    [] Kind(s) = "timestampShape" ->
         IF Tag(value) # "date" THEN Throw("TypeError")
         ELSE IF Payload(value) = InvalidInstant THEN Throw("RangeError")
         ELSE Str(ToISOString(Payload(value)))

\* Json.mapper(s)[dir](v)
JsonMapper(dir, s, v) ==
  IF ~JsonCompiles(s) THEN Throw("Error: shape is not supported by JSON")
  ELSE IF isOptional(s) /\ Tag(v) \in {"undefined", "null"} THEN v
  ELSE IF dir = "read" THEN VisitRead(s, v)
  ELSE VisitWrite(s, v)

JsonRead(s, v) == JsonMapper("read", s, v)
JsonWrite(s, v) == JsonMapper("write", s, v)

-----------------------------------------------------------------------------
(* Writer.Namespace: a namespace is the record of its five fields; every   *)
(* method returns the namespace it leaves behind and the value it returns. *)

\* Variant: the value table is created with the namespace instead of by the first addValue.
NewNamespaceEagerValues ==
  [aliases |-> Undefined, aliasReverseLookup |-> Undefined, values |-> EmptyObj,
   namesCounter |-> 0, valuesCounter |-> 0]

NewNamespace ==
  [aliases |-> Undefined, aliasReverseLookup |-> Undefined, values |-> Undefined,
   namesCounter |-> 0, valuesCounter |-> 0]

\* Variant: the counter is read before it is incremented (namesCounter++).
newNameAliasPostIncrement(ns) ==
  [ns |-> [ns EXCEPT !.namesCounter = ns.namesCounter + 1],
   ret |-> "#" \o IntToString(ns.namesCounter)]

newNameAlias(ns) ==
  [ns |-> [ns EXCEPT !.namesCounter = ns.namesCounter + 1],
   ret |-> "#" \o IntToString(ns.namesCounter + 1)]

\* Variant: the counter is read before it is incremented (valuesCounter++).
newValueIdPostIncrement(ns) ==
  [ns |-> [ns EXCEPT !.valuesCounter = ns.valuesCounter + 1],
   ret |-> ":" \o IntToString(ns.valuesCounter)]

newValueId(ns) ==
  [ns |-> [ns EXCEPT !.valuesCounter = ns.valuesCounter + 1],
   ret |-> ":" \o IntToString(ns.valuesCounter + 1)]

\* Variant: one counter serves both kinds of token.
addValueSharedCounter(ns, value) ==
  LET tbl == IF ns.values = Undefined THEN EmptyObj ELSE ns.values
  IN [ns |-> [ns EXCEPT !.namesCounter = ns.namesCounter + 1,
                        !.values = ObjSet(tbl, ":" \o IntToString(ns.namesCounter + 1), value)],
      ret |-> ":" \o IntToString(ns.namesCounter + 1)]

\* Variant: an operand equal to an earlier one reuses that operand's token.
addValueDedup(ns, value) ==
  LET tbl == IF ns.values = Undefined THEN EmptyObj ELSE ns.values
      same == {i \in DOMAIN Payload(tbl) : Payload(tbl)[i][2] = value}
  IN IF same # {}
     THEN [ns |-> ns, ret |-> Payload(tbl)[CHOOSE i \in same : TRUE][1]]
     ELSE [ns |-> [ns EXCEPT !.valuesCounter = ns.valuesCounter + 1,
                             !.values = ObjSet(tbl, ":" \o IntToString(ns.valuesCounter + 1), value)],
           ret |-> ":" \o IntToString(ns.valuesCounter + 1)]

addValue(ns, value) ==
  LET n == newValueId(ns)
      tbl == IF n.ns.values = Undefined THEN EmptyObj ELSE n.ns.values
  IN [ns |-> [n.ns EXCEPT !.values = ObjSet(tbl, n.ret, value)],
      ret |-> n.ret]

\* Variant: every request allocates a new alias, the reverse lookup is never consulted.
addNameNoLookup(ns, name) ==
  LET ns0 == IF ns.aliases = Undefined
             THEN [ns EXCEPT !.aliases = EmptyObj, !.aliasReverseLookup = EmptyObj]
             ELSE ns
      n == newNameAlias(ns0)
  IN [ns |-> [n.ns EXCEPT !.aliases = ObjSet(n.ns.aliases, n.ret, Str(name)),
                          !.aliasReverseLookup = ObjSet(n.ns.aliasReverseLookup, name, Str(n.ret))],
      ret |-> n.ret]

addName(ns, name) ==
  LET ns0 == IF ns.aliases = Undefined
             THEN [ns EXCEPT !.aliases = EmptyObj, !.aliasReverseLookup = EmptyObj]
             ELSE ns
      known == ObjGet(ns0.aliasReverseLookup, name)
  IN IF known = Undefined
     THEN LET n == newNameAlias(ns0)
          IN [ns |-> [n.ns EXCEPT !.aliases = ObjSet(n.ns.aliases, n.ret, Str(name)),
                                  !.aliasReverseLookup = ObjSet(n.ns.aliasReverseLookup, name, Str(n.ret))],
              ret |-> n.ret]
     ELSE [ns |-> ns0, ret |-> Payload(known)]

-----------------------------------------------------------------------------
(* Writer: a writer is its token buffer and its namespace. *)

NewWriter == [tokens |-> <<>>, namespace |-> NewNamespace]

\* Variant: the tokens are joined with join()'s default separator.
RECURSIVE JoinDefault(_)
JoinDefault(ts) ==
  IF ts = <<>> THEN "" ELSE IF Len(ts) = 1 THEN ts[1] ELSE Head(ts) \o "," \o JoinDefault(Tail(ts))
toExpressionDefaultJoin(w) ==
  [Expression |-> JoinDefault(w.tokens),
   ExpressionAttributeNames |-> w.namespace.aliases,
   ExpressionAttributeValues |-> w.namespace.values]

toExpression(w) ==
  [Expression |-> JoinTokens(w.tokens),
   ExpressionAttributeNames |-> w.namespace.aliases,
   ExpressionAttributeValues |-> w.namespace.values]

head(w) == IF w.tokens = <<>> THEN Undefined ELSE Str(w.tokens[Len(w.tokens)])

\* Variant: the first token is taken off (tokens.shift()).
popShift(w) ==
  IF w.tokens = <<>>
  THEN [w |-> w, ret |-> Undefined]
  ELSE [w |-> [w EXCEPT !.tokens = Tail(w.tokens)], ret |-> Str(w.tokens[1])]

pop(w) ==
  IF w.tokens = <<>>
  THEN [w |-> w, ret |-> Undefined]
  ELSE [w |-> [w EXCEPT !.tokens = SubSeq(w.tokens, 1, Len(w.tokens) - 1)],
        ret |-> Str(w.tokens[Len(w.tokens)])]

writeToken(w, token) == [w EXCEPT !.tokens = Append(w.tokens, token)]

writeName(w, name) ==
  LET r == addName(w.namespace, name)
  IN writeToken([w EXCEPT !.namespace = r.ns], r.ret)

writeValue(w, value) ==
  LET r == addValue(w.namespace, value)
  IN writeToken([w EXCEPT !.namespace = r.ns], r.ret)

-----------------------------------------------------------------------------
(* The Writer and its Namespace as a state machine: any sequence of calls  *)
(* on one Writer and on its Namespace.                                     *)

MaxCalls == 4
FieldPaths == {"id", "count", "array"}
WireOperands == {Obj(<< <<"S", Str("value")>> >>), Obj(<< <<"N", Str("1")>> >>)}
RawTokens == {"=", "+"}

CurrentNamespace ==
  [aliases |-> aliases, aliasReverseLookup |-> aliasReverseLookup, values |-> values,
   namesCounter |-> namesCounter, valuesCounter |-> valuesCounter]
CurrentWriter == [tokens |-> tokens, namespace |-> CurrentNamespace]

SetNamespace(ns) ==
  /\ aliases' = ns.aliases
  /\ aliasReverseLookup' = ns.aliasReverseLookup
  /\ values' = ns.values
  /\ namesCounter' = ns.namesCounter
  /\ valuesCounter' = ns.valuesCounter

SetWriter(w) == tokens' = w.tokens /\ SetNamespace(w.namespace)

Record(op, arg, returned) == ret' = returned /\ hist' = Append(hist, <<op, arg, returned>>)

\* no transform has been requested: the caches are empty and every context is idle
Families == {"equals", "isInstance", "validator", "mapper", "json"}
Contexts == {1, 2}
NoTransform == [id |-> 0, fam |-> "", shape |-> 0]
Idle == [pc |-> "idle", req |-> <<>>, made |-> NoTransform, builds |-> 0, began |-> 0]
NoRequests ==
  /\ caches = {}
  /\ built = <<>>
  /\ nextId = 0 /\ maps = 0
  /\ ctx = [c \in Contexts |-> Idle]
  /\ log = <<>>

NoCodecCall ==
  /\ shape = 0
  /\ optValidate = FALSE
  /\ input = Undefined
  /\ phase = "idle"
  /\ wire = Undefined
  /\ output = Undefined
  /\ otherInput = Undefined

Init ==
  /\ NoCodecCall
  /\ NoRequests
  /\ tokens = NewWriter.tokens
  /\ aliases = NewNamespace.aliases
  /\ aliasReverseLookup = NewNamespace.aliasReverseLookup
  /\ values = NewNamespace.values
  /\ namesCounter = NewNamespace.namesCounter
  /\ valuesCounter = NewNamespace.valuesCounter
  /\ ret = Undefined
  /\ hist = <<>>

AddName ==
  /\ UNCHANGED <<codecVars, cacheVars>>
  /\ \E name \in FieldPaths :
    /\ Len(hist) < MaxCalls
    /\ LET r == addName(CurrentNamespace, name)
       IN SetNamespace(r.ns) /\ Record("addName", Str(name), Str(r.ret))
    /\ UNCHANGED tokens

AddValue ==
  /\ UNCHANGED <<codecVars, cacheVars>>
  /\ \E value \in WireOperands :
    /\ Len(hist) < MaxCalls
    /\ LET r == addValue(CurrentNamespace, value)
       IN SetNamespace(r.ns) /\ Record("addValue", value, Str(r.ret))
    /\ UNCHANGED tokens

WriteToken ==
  /\ UNCHANGED <<codecVars, cacheVars>>
  /\ \E token \in RawTokens :
    /\ Len(hist) < MaxCalls
    /\ SetWriter(writeToken(CurrentWriter, token))
    /\ Record("writeToken", Str(token), Undefined)

WriteName ==
  /\ UNCHANGED <<codecVars, cacheVars>>
  /\ \E name \in FieldPaths :
    /\ Len(hist) < MaxCalls
    /\ SetWriter(writeName(CurrentWriter, name))
    /\ Record("writeName", Str(name), Undefined)

WriteValue ==
  /\ UNCHANGED <<codecVars, cacheVars>>
  /\ \E value \in WireOperands :
    /\ Len(hist) < MaxCalls
    /\ SetWriter(writeValue(CurrentWriter, value))
    /\ Record("writeValue", value, Undefined)

HeadCall ==
  /\ UNCHANGED <<codecVars, cacheVars>>
  /\ Len(hist) < MaxCalls
  /\ Record("head", Undefined, head(CurrentWriter))
  /\ UNCHANGED <<tokens, nsVars>>

PopCall ==
  /\ UNCHANGED <<codecVars, cacheVars>>
  /\ Len(hist) < MaxCalls
  /\ LET r == pop(CurrentWriter)
     IN SetWriter(r.w) /\ Record("pop", Undefined, r.ret)

Next ==
  \/ AddName
  \/ AddValue
  \/ WriteToken
  \/ WriteName
  \/ WriteValue
  \/ HeadCall
  \/ PopCall

Spec == Init /\ [][Next]_vars

-----------------------------------------------------------------------------
(* The codecs applied to an input: a Shape and a value are chosen, the     *)
(* attribute or the JSON mapper of the Shape writes the value and reads    *)
(* back what it wrote, or reads the value as a wire value.                 *)

Wire(key, v) == Obj(<< <<key, v>> >>)

DomainValues ==
  { Undefined, Null, Str("a"), Str("UP"), Num(1), T,
    Arr(<<>>), Arr(<<Str("a")>>), Arr(<<Str("a"), Str("b")>>), Arr(<<Num(1)>>),
    SetOf(<<>>), SetOf(<<Str("a")>>), SetOf(<<Num(1)>>), SetOf(<<Buffer(<<1>>)>>),
    Obj(<<>>), Obj(<< <<"id", Str("a")>> >>),
    Obj(<< <<"id", Str("a")>>, <<"count", Num(1)>> >>),
    Obj(<< <<"id", Str("a")>>, <<"count", Undefined>> >>),
    Obj(<< <<"id", Num(1)>> >>),
    Obj(<< <<"k", Num(1)>> >>),
    Date(1), Buffer(<<1>>) }

AttributeWireValues ==
  { Wire("S", Str("a")), Wire("S", Str("UP")), Wire("S", Str(ToISOString(1))), Wire("S", Num(1)),
    Wire("N", Str("1")), Wire("N", Str("x")),
    Wire("BOOL", T), Wire("NULL", T), Wire("B", Buffer(<<1>>)),
    Wire("L", Arr(<<>>)), Wire("L", Arr(<<Wire("S", Str("a"))>>)), Wire("L", Arr(<<Wire("N", Str("1"))>>)),
    Wire("M", EmptyObj),
    Wire("M", Obj(<< <<"id", Wire("S", Str("a"))>> >>)),
    Wire("M", Obj(<< <<"id", Wire("S", Str("a"))>>, <<"count", Wire("N", Str("1"))>> >>)),
    Wire("M", Obj(<< <<"k", Wire("N", Str("1"))>> >>)),
    Wire("SS", Arr(<<Str("a"), Str("a")>>)), Wire("NS", Arr(<<Str("1")>>)),
    Wire("BS", Arr(<<Buffer(<<1>>)>>)) }

JsonWireValues ==
  { Null, Str("a"), Str("UP"), Str(ToISOString(1)), Str("AQ=="), Num(1), T,
    Arr(<<>>), Arr(<<Str("a")>>), Arr(<<Num(1)>>),
    Obj(<<>>), Obj(<< <<"id", Str("a")>>, <<"count", Num(1)>> >>),
    Obj(<< <<"id", Str("a")>>, <<"count", Null>> >>),
    Obj(<< <<"k", Num(1)>> >>) }

CodecInputs == DomainValues \cup AttributeWireValues \cup JsonWireValues

CodecInit ==
  /\ tokens = NewWriter.tokens
  /\ aliases = NewNamespace.aliases
  /\ aliasReverseLookup = NewNamespace.aliasReverseLookup
  /\ values = NewNamespace.values
  /\ namesCounter = NewNamespace.namesCounter
  /\ valuesCounter = NewNamespace.valuesCounter
  /\ ret = Undefined
  /\ hist = <<>>
  /\ shape \in CodecShapes
  /\ optValidate \in BOOLEAN
  /\ input \in CodecInputs
  /\ phase = "start"
  /\ wire = Undefined
  /\ output = Undefined
  /\ otherInput = Undefined
  /\ NoRequests

\* Mapper.of(shape, {validate, cache}).write(input)
AttrWrite ==
  /\ phase = "start"
  /\ input \in DomainValues
  /\ wire' = MapperWrite(shape, input, optValidate)
  /\ phase' = "attr.written"
  /\ UNCHANGED <<writerVars, cacheVars, shape, optValidate, input, otherInput, output>>

\* Mapper.of(shape, {validate, cache}).read(wire), on what write returned
AttrReadBack ==
  /\ phase = "attr.written"
  /\ ~IsThrow(wire)
  /\ output' = MapperRead(shape, wire, optValidate)
  /\ phase' = "attr.readback"
  /\ UNCHANGED <<writerVars, cacheVars, shape, optValidate, input, otherInput, wire>>

\* Mapper.of(shape, {validate, cache}).read(input)
AttrRead ==
  /\ phase = "start"
  /\ input \in AttributeWireValues
  /\ output' = MapperRead(shape, input, optValidate)
  /\ phase' = "attr.read"
  /\ UNCHANGED <<writerVars, cacheVars, shape, optValidate, input, otherInput, wire>>

\* Json.mapper(shape).write(input)
JsonWriteCall ==
  /\ phase = "start"
  /\ input \in DomainValues
  /\ optValidate = FALSE
  /\ wire' = JsonWrite(shape, input)
  /\ phase' = "json.written"
  /\ UNCHANGED <<writerVars, cacheVars, shape, optValidate, input, otherInput, output>>

\* Json.mapper(shape).read(wire), on what write returned
JsonReadBack ==
  /\ phase = "json.written"
  /\ ~IsThrow(wire)
  /\ output' = JsonRead(shape, wire)
  /\ phase' = "json.readback"
  /\ UNCHANGED <<writerVars, cacheVars, shape, optValidate, input, otherInput, wire>>

\* Json.mapper(shape).read(input)
JsonReadCall ==
  /\ phase = "start"
  /\ input \in JsonWireValues
  /\ optValidate = FALSE
  /\ output' = JsonRead(shape, input)
  /\ phase' = "json.read"
  /\ UNCHANGED <<writerVars, cacheVars, shape, optValidate, input, otherInput, wire>>

CodecNext ==
  \/ AttrWrite
  \/ AttrReadBack
  \/ AttrRead
  \/ JsonWriteCall
  \/ JsonReadBack
  \/ JsonReadCall

CodecSpec == CodecInit /\ [][CodecNext]_vars

-----------------------------------------------------------------------------
(* IsInstance.of(shape)(input) and Equals.of(shape)(input, other), applied *)
(* to the values of the domain.                                            *)

\* values of the Struct of two enum fields, and collections of enum values
Firsts(first, second) == Obj(<< <<"first", first>>, <<"second", second>> >>)
CheckValues ==
  DomainValues \cup
  { Firsts(Str("a"), Str("b")), Firsts(Str("UP"), Str("a")), Firsts(Str("UP"), Str("DOWN")),
    Arr(<<Firsts(Str("UP"), Str("a")), Firsts(Str("a"), Str("b"))>>),
    Arr(<<Str("UP"), Str("a"), Str("b")>>),
    SetOf(<<Str("a"), Str("b")>>),
    Obj(<< <<"k", Str("a")>>, <<"j", Str("UP")>> >>) }

CheckInit ==
  /\ tokens = NewWriter.tokens
  /\ aliases = NewNamespace.aliases
  /\ aliasReverseLookup = NewNamespace.aliasReverseLookup
  /\ values = NewNamespace.values
  /\ namesCounter = NewNamespace.namesCounter
  /\ valuesCounter = NewNamespace.valuesCounter
  /\ ret = Undefined
  /\ hist = <<>>
  /\ shape \in CheckShapes
  /\ optValidate = FALSE
  /\ input \in CheckValues
  /\ otherInput \in CheckValues
  /\ phase = "check.start"
  /\ wire = Undefined
  /\ output = Undefined
  /\ NoRequests

\* IsInstance.of(shape)(input)
IsInstanceCall ==
  /\ phase = "check.start"
  /\ output' = IsInstance(shape, input)
  /\ phase' = "isInstance"
  /\ UNCHANGED <<writerVars, cacheVars, shape, optValidate, input, otherInput, wire>>

\* Equals.of(shape)(a, b) with a and b of Value.Of<shape>, as its signature
\* asks; the two may be one object when they are the same value
EqualsCall ==
  /\ phase = "check.start"
  /\ IsInstance(shape, input) = T
  /\ IsInstance(shape, otherInput) = T
  /\ \E same \in (IF input = otherInput THEN BOOLEAN ELSE {FALSE}) :
       /\ output' = Equals(shape, input, otherInput, same)
       /\ phase' = IF same THEN "equals.same" ELSE "equals"
  /\ UNCHANGED <<writerVars, cacheVars, shape, optValidate, input, otherInput, wire>>

\* Validator.of(shape)(input, '$')
ValidatorCall ==
  /\ phase = "check.start"
  /\ output' = Validator(shape, input, "$")
  /\ phase' = "validator"
  /\ UNCHANGED <<writerVars, cacheVars, shape, optValidate, input, otherInput, wire>>

CheckNext ==
  \/ IsInstanceCall
  \/ EqualsCall
  \/ ValidatorCall

CheckSpec == CheckInit /\ [][CheckNext]_vars

-----------------------------------------------------------------------------
(* Meta.apply(shape, metadata) and mergeMetadataValue(a, b) of metadata.ts. *)
(* input is the Decorated.Data of the shape, otherInput the metadata, and   *)
(* output the Decorated.Data the returned wrapper answers with; wire is     *)
(* the Decorated.Data of the shape read again after the call.               *)

\* { ...a }: the own enumerable properties of a, none for null
Spread(a) == IF Tag(a) \in {"undefined", "null"} THEN EmptyObj ELSE Obj(Payload(OwnEntries(a)))

\* { ...b, ...a }: the keys of b in their order, then the other keys of a, the values of a winning
SpreadOver(b, a) ==
  Obj([i \in DOMAIN Payload(b) |->
         IF ObjHas(a, Payload(b)[i][1]) THEN <<Payload(b)[i][1], ObjGet(a, Payload(b)[i][1])>> ELSE Payload(b)[i]]
      \o SelectSeq(Payload(a), LAMBDA e : ~ObjHas(b, e[1])))

RECURSIVE mergeMetadataValue(_, _), MergeEntries(_, _, _)
\* the for loop over Object.entries(b), from entry i, on the copy a
MergeEntries(a, es, i) ==
  IF i > Len(es) THEN a
  ELSE IF ObjGet(a, es[i][1]) # Undefined
       THEN Try(mergeMetadataValue(ObjGet(a, es[i][1]), es[i][2]),
                LAMBDA m : MergeEntries(ObjSet(a, es[i][1], m), es, i + 1))
       ELSE MergeEntries(ObjSet(a, es[i][1], es[i][2]), es, i + 1)
mergeMetadataValue(a, b) ==
  IF Tag(a) = "array" /\ Tag(b) = "array" THEN Arr(Payload(b) \o Payload(a))
  ELSE IF TypeOf(a) = "object" /\ TypeOf(b) = "object"
       THEN Try(OwnEntries(b),
                LAMBDA es : Try(MergeEntries(Spread(a), Payload(es), 1),
                                LAMBDA merged : SpreadOver(Spread(b), merged)))
       ELSE b

\* (shape as any)[Decorated.Data] || {}
Falsy(v) ==
  \/ Tag(v) \in {"undefined", "null", "nan"}
  \/ Tag(v) = "string" /\ Payload(v) = ""
  \/ Tag(v) = "number" /\ Payload(v) = 0
  \/ Tag(v) = "boolean" /\ v = F
DataOrEmpty(data) == IF Falsy(data) THEN EmptyObj ELSE data

\* the annotation values the calls are made on
MetaValues ==
  { Undefined, Null, Str("a"), Num(1),
    Arr(<<>>), Arr(<<Num(1)>>), Arr(<<Str("a"), Num(1)>>),
    EmptyObj, Obj(<< <<"k", Num(1)>> >>), Obj(<< <<"j", Str("a")>> >>),
    Obj(<< <<"k", Arr(<<Num(1)>>)>> >>), Obj(<< <<"k", Arr(<<Str("a")>>)>>, <<"j", Num(1)>> >>),
    Obj(<< <<"k", Obj(<< <<"j", Num(1)>> >>)>> >>), Obj(<< <<"k", Obj(<< <<"i", Str("a")>> >>)>> >>),
    Obj(<< <<"k", Null>> >>) }
IsPlain(v) == Tag(v) = "object"

MetaInit ==
  /\ tokens = NewWriter.tokens
  /\ aliases = NewNamespace.aliases
  /\ aliasReverseLookup = NewNamespace.aliasReverseLookup
  /\ values = NewNamespace.values
  /\ namesCounter = NewNamespace.namesCounter
  /\ valuesCounter = NewNamespace.valuesCounter
  /\ ret = Undefined
  /\ hist = <<>>
  /\ shape = StringS
  /\ optValidate = FALSE
  /\ input \in MetaValues
  /\ otherInput \in MetaValues
  /\ phase = "meta.start"
  /\ wire = Undefined
  /\ output = Undefined
  /\ NoRequests

\* mergeMetadataValue(input, otherInput)
MergeCall ==
  /\ phase = "meta.start"
  /\ output' = mergeMetadataValue(input, otherInput)
  /\ wire' = input
  /\ phase' = "meta.merged"
  /\ UNCHANGED <<writerVars, cacheVars, shape, optValidate, input, otherInput>>

\* Meta.apply(shape, otherInput) on a shape whose Decorated.Data is input:
\* the metadata is an object, the Decorated.Data an object or absent
apply ==
  /\ phase = "meta.start"
  /\ IsPlain(otherInput)
  /\ IsPlain(input) \/ input = Undefined
  /\ output' = mergeMetadataValue(DataOrEmpty(input), otherInput)
  /\ wire' = input
  /\ phase' = "meta.applied"
  /\ UNCHANGED <<writerVars, cacheVars, shape, optValidate, input, otherInput>>

MetaNext ==
  \/ MergeCall
  \/ apply

MetaSpec == MetaInit /\ [][MetaNext]_vars

\* the elements of two arrays as a bag
ElementBag(s) == [e \in Range(s) |-> Cardinality({i \in DOMAIN s : s[i] = e})]
KeySet(o) == Range(ObjKeys(o))

\* out is what the merge rule of the claim gives for old and new
RECURSIVE MergedByRule(_, _, _)
MergedByRule(old, new, out) ==
  IF Tag(old) = "array" /\ Tag(new) = "array"
  THEN Tag(out) = "array" /\ ElementBag(Payload(out)) = ElementBag(Payload(old) \o Payload(new))
  ELSE IF IsPlain(old) /\ IsPlain(new)
       THEN /\ IsPlain(out)
            /\ Len(Payload(out)) = Cardinality(KeySet(out))
            /\ KeySet(out) = KeySet(old) \cup KeySet(new)
            /\ \A k \in KeySet(out) :
                 IF ObjHas(old, k) /\ ObjHas(new, k)
                 THEN MergedByRule(ObjGet(old, k), ObjGet(new, k), ObjGet(out, k))
                 ELSE ObjGet(out, k) = (IF ObjHas(old, k) THEN ObjGet(old, k) ELSE ObjGet(new, k))
       ELSE out = new

\* C27: mergeMetadataValue(old, new) gives, for two arrays, an array of every
\* element of both; for two objects, an object over the union of their keys
\* where a key of both is merged by the same rule and a key of one keeps its
\* value; otherwise the new value.  Meta.apply returns a wrapper carrying
\* the merge and leaves the annotations of the shape as they were.
AnnotationMergeRule ==
  /\ phase = "meta.merged" => MergedByRule(input, otherInput, output)
  /\ phase = "meta.applied" =>
       /\ MergedByRule(DataOrEmpty(input), otherInput, output)
       /\ wire = input

\* the part of C27 that holds: the rule on annotation objects without null,
\* where no array meets an object
RECURSIVE Mergeable(_, _)
Mergeable(old, new) ==
  IF Tag(old) = "array" /\ Tag(new) = "array" THEN TRUE
  ELSE IF IsPlain(old) /\ IsPlain(new)
       THEN \A k \in KeySet(old) \cap KeySet(new) : Mergeable(ObjGet(old, k), ObjGet(new, k))
       ELSE ~(TypeOf(old) = "object" /\ TypeOf(new) = "object")
AnnotationMergeRuleOnMergeable ==
  /\ phase = "meta.merged" /\ Mergeable(input, otherInput) => MergedByRule(input, otherInput, output)
  /\ phase = "meta.applied" /\ Mergeable(DataOrEmpty(input), otherInput) =>
       /\ MergedByRule(DataOrEmpty(input), otherInput, output)
       /\ wire = input

-----------------------------------------------------------------------------
(* Update.compile(statements): the clauses of the DSL over the Struct      *)
(* MyType, each synthesizing itself onto one Writer.  A clause is          *)
(* <<kind, field path, operand>>.                                          *)

\* the members of MyType the clauses are over
MyTypeFields ==
  << <<"id", StringS>>, <<"count", OptNumberS>>, <<"direction", EnumS>>, <<"array", ArrayS>> >>
MemberShape(path) == MyTypeFields[CHOOSE i \in DOMAIN MyTypeFields : MyTypeFields[i][1] = path][2]

SetLiteral(path, value) == <<"set", path, value>>
SetReference(path, other) == <<"setRef", path, other>>
Increment(path, delta) == <<"increment", path, delta>>
Push(path, item) == <<"push", path, item>>
ListAppend(path, items) == <<"concat", path, items>>

\* the literal operand of a clause as the attribute codec of its Shape writes it
HasLiteral(c) == c[1] # "setRef"
OperandShape(c) == IF c[1] = "push" THEN Items(MemberShape(c[2])) ELSE MemberShape(c[2])
OperandValue(c) == IF c[1] = "increment" /\ c[3] = Undefined THEN Num(1) ELSE c[3]
OperandWire(c) ==
  IF HasLiteral(c) THEN MapperWrite(OperandShape(c), OperandValue(c), TRUE) ELSE Undefined

\* statement[DSL.Synthesize](writer)
SynthesizeClause(c, name, operand) ==
  CASE c[1] = "set" -> writeValue(writeToken(name, "="), operand)
    [] c[1] = "setRef" -> writeName(writeToken(name, "="), c[3])
    [] c[1] = "increment" ->
         writeValue(writeToken(writeName(writeToken(name, "="), c[2]), "+"), operand)
    [] c[1] = "push" ->
         writeValue(writeToken(writeToken(writeToken(writeToken(name, "["), "1"), "]"), "="), operand)
    [] c[1] = "concat" ->
         writeToken(writeValue(writeToken(writeName(writeToken(writeToken(name, "="), "list_append("),
                                                    c[2]), ","),
                               operand), ")")
Synthesize(c, w) == SynthesizeClause(c, writeName(w, c[2]), OperandWire(c))

RECURSIVE SynthesizeAll(_, _, _)
SynthesizeAll(statements, i, w) ==
  IF i > Len(statements) THEN w
  ELSE IF i = Len(statements) THEN SynthesizeAll(statements, i + 1, Synthesize(statements[i], w))
  ELSE SynthesizeAll(statements, i + 1, writeToken(Synthesize(statements[i], w), ", "))

\* the Writer of one compilation when it has synthesized every statement
CompileWriter(statements) == SynthesizeAll(statements, 1, writeToken(NewWriter, "SET "))

Update(u) == <<"update", u>>
OperandWires(statements) == [i \in DOMAIN statements |-> OperandWire(statements[i])]
FirstThrown(wires) ==
  IF \E i \in DOMAIN wires : IsThrow(wires[i])
  THEN wires[CHOOSE i \in DOMAIN wires : IsThrow(wires[i]) /\ \A j \in 1..(i - 1) : ~IsThrow(wires[j])]
  ELSE Undefined
UpdateOf(e) ==
  Update([UpdateExpression |-> e.Expression,
          ExpressionAttributeNames |-> e.ExpressionAttributeNames,
          ExpressionAttributeValues |-> e.ExpressionAttributeValues])
compile(statements) ==
  Try(FirstThrown(OperandWires(statements)), LAMBDA none :
    UpdateOf(toExpression(CompileWriter(statements))))

MaxClauses == 2
Clauses ==
  { SetLiteral("id", Str("value")), SetLiteral("direction", Str("UP")),
    SetReference("direction", "direction"), SetReference("id", "direction"),
    Increment("count", Undefined), Increment("count", Num(2)),
    Push("array", Str("value")), ListAppend("array", Arr(<<Str("value")>>)) }
Batches == UNION {[1..n -> Clauses] : n \in 0..MaxClauses}
Statements(b) == <<"statements", b>>

UpdateInit ==
  /\ tokens = NewWriter.tokens
  /\ aliases = NewNamespace.aliases
  /\ aliasReverseLookup = NewNamespace.aliasReverseLookup
  /\ values = NewNamespace.values
  /\ namesCounter = NewNamespace.namesCounter
  /\ valuesCounter = NewNamespace.valuesCounter
  /\ ret = Undefined
  /\ hist = <<>>
  /\ shape = 0
  /\ optValidate = TRUE
  /\ input \in {Statements(b) : b \in Batches}
  /\ phase = "update.start"
  /\ wire = Undefined
  /\ output = Undefined
  /\ otherInput = Undefined
  /\ NoRequests

\* Update.compile(input); the writer variables show the Writer it used
Compile ==
  /\ phase = "update.start"
  /\ output' = compile(Payload(input))
  /\ IF IsThrow(output')
     THEN UNCHANGED <<tokens, nsVars>>
     ELSE SetWriter(CompileWriter(Payload(input)))
  /\ phase' = "update.compiled"
  /\ UNCHANGED <<ret, hist, shape, optValidate, input, otherInput, wire, cacheVars>>

UpdateNext == Compile

UpdateSpec == UpdateInit /\ [][UpdateNext]_vars

-----------------------------------------------------------------------------
(* Requests for compiled transforms: Equals.of, IsInstance.of,             *)
(* Validator.of, Mapper.of and Json.mapper as the builders of transforms,  *)
(* with the WeakMaps two of them keep.  A transform is the record of its   *)
(* identity (a new object each time one is built), family and Shape; a     *)
(* request is <<family, Shape, cache>>, the cache being the WeakMap of the *)
(* Equals namespace, an options.cache, the WeakMap a call of Mapper.of     *)
(* without options creates, or none.                                       *)

Transform(id, fam, s) == [id |-> id, fam |-> fam, shape |-> s]

\* the WeakMaps: the one of the Equals namespace, the one of an options object
\* the caller keeps, the n-th one created by a call without options, none,
\* and the request to create one
EqualsCache == <<"equals", 0>>
OptionsCache == <<"options", 0>>
Fresh(n) == <<"fresh", n>>
NoCache == <<"none", 0>>
NewCache == <<"new", 0>>
Caching(fam) == fam \in {"equals", "mapper"}

\* WeakMap.has, .get and .set on the entries <<cache, Shape, transform>>
CacheHas(entries, c, s) == \E e \in entries : e[1] = c /\ e[2] = s
CacheGet(entries, c, s) == (CHOOSE e \in entries : e[1] = c /\ e[2] = s)[3]
\* Variant: set adds an entry and leaves the entry the key has in place.
CacheSetAdding(entries, c, s, t) == entries \cup {<<c, s, t>>}
CacheSet(entries, c, s, t) == {e \in entries : ~(e[1] = c /\ e[2] = s)} \cup {<<c, s, t>>}

\* how often the transform of the key <<family, Shape>> has been built
Count(b, k) == IF k \in DOMAIN b THEN b[k] ELSE 0
Counted(b, k) == [x \in DOMAIN b \cup {k} |-> IF x = k THEN Count(b, k) + 1 ELSE b[x]]

FieldShapes(s) == [i \in DOMAIN Fields(s) |-> Fields(s)[i][2]]
Reqs(fam, shapes, c) == [i \in DOMAIN shapes |-> <<fam, shapes[i], c>>]
\* items.map(item => [first(item), second(item)]): the two requests of each item in turn
Pairs(first, second) ==
  [i \in 1..(2 * Len(first)) |-> IF i % 2 = 1 THEN first[(i + 1) \div 2] ELSE second[i \div 2]]

\* the transforms a visitor method requests while it builds the transform of s, in order
Children(fam, s, c) ==
  CASE fam = "equals" ->
         CASE Kind(s) = "structShape" -> Reqs("equals", FieldShapes(s), EqualsCache)
           [] Kind(s) \in {"arrayShape", "mapShape"} -> Reqs("equals", <<Items(s)>>, EqualsCache)
           [] Kind(s) = "unionShape" ->
                Pairs(Reqs("isInstance", Items(s), NoCache), Reqs("equals", Items(s), EqualsCache))
           [] Kind(s) = "literalShape" -> Reqs("equals", <<ShapeTab[s].Type>>, EqualsCache)
           [] OTHER -> <<>>
    [] fam = "isInstance" ->
         CASE Kind(s) = "structShape" -> Reqs("isInstance", FieldShapes(s), NoCache)
           [] Kind(s) \in {"arrayShape", "mapShape", "setShape"} -> Reqs("isInstance", <<Items(s)>>, NoCache)
           [] Kind(s) = "unionShape" -> Reqs("isInstance", Items(s), NoCache)
           [] Kind(s) = "literalShape" ->
                <<<<"equals", ShapeTab[s].Type, EqualsCache>>, <<"isInstance", ShapeTab[s].Type, NoCache>>>>
           [] OTHER -> <<>>
    [] fam = "validator" ->
         CASE Kind(s) = "structShape" -> Reqs("validator", FieldShapes(s), NoCache)
           [] Kind(s) \in {"arrayShape", "mapShape", "setShape"} -> Reqs("validator", <<Items(s)>>, NoCache)
           [] Kind(s) = "unionShape" ->
                Pairs(Reqs("isInstance", Items(s), NoCache), Reqs("validator", Items(s), NoCache))
           [] Kind(s) = "literalShape" -> <<<<"isInstance", ShapeTab[s].Type, NoCache>>>>
           [] OTHER -> <<>>
    [] fam = "mapper" ->
         CASE Kind(s) = "structShape" -> Reqs("mapper", FieldShapes(s), c)
           [] Kind(s) \in {"arrayShape", "mapShape"} -> Reqs("mapper", <<Items(s)>>, c)
           [] Kind(s) = "unionShape" ->
                Pairs(Reqs("isInstance", Items(s), NoCache), Reqs("mapper", Items(s), NewCache))
           [] Kind(s) = "literalShape" -> Reqs("mapper", <<ShapeTab[s].Type>>, NewCache)
           [] OTHER -> <<>>
    [] fam = "json" ->
         CASE Kind(s) = "structShape" -> Reqs("json", FieldShapes(s), NoCache)
           [] Kind(s) \in {"arrayShape", "mapShape", "setShape"} -> Reqs("json", <<Items(s)>>, NoCache)
           [] Kind(s) = "unionShape" ->
                Pairs(Reqs("isInstance", Items(s), NoCache), Reqs("json", Items(s), NoCache))
           [] Kind(s) = "literalShape" ->
                <<<<"json", ShapeTab[s].Type, NoCache>>, <<"equals", ShapeTab[s].Type, EqualsCache>>>>
           [] Kind(s) = "enumShape" -> <<<<"isInstance", s, NoCache>>>>
           [] OTHER -> <<>>

\* the Error the visitor method of s throws for the Shape itself, "" when it throws none
BuildError(fam, s) ==
  CASE fam = "mapper" /\ Kind(s) = "setShape" /\ SetElementKey(s) = "" -> "Error: invalid DynamoDB set type"
    [] fam = "mapper" /\ Kind(s) \in {"neverShape", "functionShape"} -> "Error: Shape is not supported by DynamoDB"
    [] fam = "json" /\ Kind(s) \in {"neverShape", "functionShape"} -> "Error: shape is not supported by JSON"
    [] OTHER -> ""

\* the calls the call stack holds before the engine throws its RangeError
MaxDepth == 4

\* A build threads st: the caches, the counts, the transforms built, the
\* number of WeakMaps created, the Error thrown ("" when none) and what the
\* last request returned.
RECURSIVE Of(_, _, _), OfAll(_, _, _, _)

OfAll(reqs, i, st, depth) ==
  IF i > Len(reqs) THEN st ELSE OfAll(reqs, i + 1, Of(reqs[i], st, depth), depth)

\* the visitor method: the transforms of the children, then a new transform
\* (Equals.literalShape returns the transform of the literal's type)
Built(req, st) ==
  IF st.err # "" THEN st
  ELSE IF req[1] = "equals" /\ Kind(req[2]) = "literalShape" THEN st
  ELSE [st EXCEPT !.ret = Transform(st.nextId + 1, req[1], req[2]), !.nextId = @ + 1]
Make(req, st, depth) ==
  IF BuildError(req[1], req[2]) # ""
  THEN [st EXCEPT !.built = Counted(@, <<req[1], req[2]>>), !.err = BuildError(req[1], req[2])]
  ELSE Built(req, OfAll(Children(req[1], req[2], req[3]), 1,
                        [st EXCEPT !.built = Counted(@, <<req[1], req[2]>>)], depth + 1))

\* cache.set(shape, made); return cache.get(shape)
Stored(req, st) ==
  IF st.err # "" \/ ~Caching(req[1]) THEN st
  ELSE [st EXCEPT !.caches = CacheSet(@, req[3], req[2], st.ret)]

\* family.of(shape): the cached transform if the cache of the request has one, a new one if not
OfIn(req, st, depth) ==
  IF Caching(req[1]) /\ CacheHas(st.caches, req[3], req[2])
  THEN [st EXCEPT !.ret = CacheGet(st.caches, req[3], req[2])]
  ELSE Stored(req, Make(req, st, depth))
Of(req, st, depth) ==
  IF st.err # "" THEN st
  ELSE IF depth > MaxDepth THEN [st EXCEPT !.err = "RangeError: Maximum call stack size exceeded"]
  ELSE IF req[3] = NewCache
  THEN OfIn(<<req[1], req[2], Fresh(st.maps + 1)>>, [st EXCEPT !.maps = @ + 1], depth)
  ELSE OfIn(req, st, depth)

\* the requests the callers make: the Struct, a second Struct of the same
\* fields, a Struct that has itself as a field, and one that does through another
RequestShapes == {StructS, TwinStructS, SelfS, ChainAS}
MaxRequests == 2

\* the cache of a call: Equals.of has the namespace's, Mapper.of that of the
\* options it is given or a new one, the other families have none
CallCaches(fam) ==
  CASE fam = "equals" -> {EqualsCache}
    [] fam = "mapper" -> {OptionsCache, NewCache}
    [] OTHER -> {NoCache}

InFlight == {c \in Contexts : ctx[c].pc # "idle"}
\* a WeakMap no call holds any more is collected
Held(cx) == {EqualsCache, OptionsCache} \cup {cx[c].req[3] : c \in {k \in Contexts : cx[k].pc # "idle"}}
Collected(entries, cx) == {e \in entries : e[1] \in Held(cx)}

\* The families share no cache on the Shapes requested, so a behaviour
\* follows the requests made of one family.
OneFamily(fam) ==
  /\ \A i \in DOMAIN log : log[i].req[1] = fam
  /\ \A c \in InFlight : ctx[c].req[1] = fam

Served(c, err, t) ==
  [ctx |-> c, req |-> ctx[c].req, err |-> err, ret |-> t, builds |-> ctx[c].builds, began |-> ctx[c].began]

\* a caller in context c calls family.of(shape): the call is entered
Request(c, fam, s, cache) ==
  /\ ctx[c].pc = "idle"
  /\ Len(log) + Cardinality(InFlight) < MaxRequests
  /\ OneFamily(fam)
  /\ ctx' = [ctx EXCEPT ![c] =
       [Idle EXCEPT !.pc = "called", !.began = Len(log),
                    !.req = <<fam, s, IF cache = NewCache THEN Fresh(maps + 1) ELSE cache>>]]
  /\ maps' = IF cache = NewCache THEN maps + 1 ELSE maps
  /\ UNCHANGED <<caches, built, nextId, log>>

\* if (!cache.has(shape))
Check(c) ==
  /\ ctx[c].pc = "called"
  /\ ctx' = [ctx EXCEPT ![c].pc =
       IF Caching(ctx[c].req[1]) /\ CacheHas(caches, ctx[c].req[3], ctx[c].req[2]) THEN "stored" ELSE "miss"]
  /\ UNCHANGED <<caches, built, nextId, maps, log>>

\* make() / resolve(): the visitor builds the transform, its children first;
\* an Error it throws ends the call
Thrown(c, st) ==
  /\ log' = Append(log, [Served(c, st.err, NoTransform) EXCEPT !.builds = Count(st.built, <<ctx[c].req[1], ctx[c].req[2]>>)])
  /\ ctx' = [ctx EXCEPT ![c] = Idle]
  /\ caches' = Collected(st.caches, ctx')
Resolved(c, st) ==
  /\ ctx' = [ctx EXCEPT ![c].pc = "made", ![c].made = st.ret,
                        ![c].builds = Count(st.built, <<ctx[c].req[1], ctx[c].req[2]>>)]
  /\ caches' = Collected(st.caches, ctx')
  /\ log' = log
Finish(c, st) ==
  /\ built' = st.built
  /\ nextId' = st.nextId
  /\ maps' = st.maps
  /\ IF st.err # "" THEN Thrown(c, st) ELSE Resolved(c, st)
MakeStep(c) ==
  /\ ctx[c].pc = "miss"
  /\ Finish(c, Make(ctx[c].req, [caches |-> caches, built |-> <<>>, nextId |-> nextId, maps |-> maps,
                                 err |-> "", ret |-> NoTransform], 1))

\* cache.set(shape, made)
Store(c) ==
  /\ ctx[c].pc = "made"
  /\ Caching(ctx[c].req[1])
  /\ caches' = CacheSet(caches, ctx[c].req[3], ctx[c].req[2], ctx[c].made)
  /\ ctx' = [ctx EXCEPT ![c].pc = "stored"]
  /\ UNCHANGED <<built, nextId, maps, log>>

\* return cache.get(shape)
ReturnCached(c) ==
  /\ ctx[c].pc = "stored"
  /\ log' = Append(log, Served(c, "", CacheGet(caches, ctx[c].req[3], ctx[c].req[2])))
  /\ ctx' = [ctx EXCEPT ![c] = Idle]
  /\ caches' = Collected(caches, ctx')
  /\ UNCHANGED <<built, nextId, maps>>

\* return type.visit(visitor): the families that keep no cache
ReturnMade(c) ==
  /\ ctx[c].pc = "made"
  /\ ~Caching(ctx[c].req[1])
  /\ log' = Append(log, Served(c, "", ctx[c].made))
  /\ ctx' = [ctx EXCEPT ![c] = Idle]
  /\ UNCHANGED <<caches, built, nextId, maps>>

CacheInit ==
  /\ tokens = NewWriter.tokens
  /\ aliases = NewNamespace.aliases
  /\ aliasReverseLookup = NewNamespace.aliasReverseLookup
  /\ values = NewNamespace.values
  /\ namesCounter = NewNamespace.namesCounter
  /\ valuesCounter = NewNamespace.valuesCounter
  /\ ret = Undefined
  /\ hist = <<>>
  /\ NoCodecCall
  /\ NoRequests

CacheNext ==
  \/ \E c \in Contexts, fam \in Families, s \in RequestShapes :
       \E cache \in CallCaches(fam) : Request(c, fam, s, cache) /\ UNCHANGED <<writerVars, codecVars>>
  \/ \E c \in Contexts : Check(c) /\ UNCHANGED <<writerVars, codecVars>>
  \/ \E c \in Contexts : MakeStep(c) /\ UNCHANGED <<writerVars, codecVars>>
  \/ \E c \in Contexts : Store(c) /\ UNCHANGED <<writerVars, codecVars>>
  \/ \E c \in Contexts : ReturnCached(c) /\ UNCHANGED <<writerVars, codecVars>>
  \/ \E c \in Contexts : ReturnMade(c) /\ UNCHANGED <<writerVars, codecVars>>

CacheSpec == CacheInit /\ [][CacheNext]_vars

-----------------------------------------------------------------------------
(* Properties of the requests for transforms, over the requests served.   *)

\* the call of log[j] was entered after the call of log[i] had returned
After(i, j) == i < j /\ log[j].began >= i
SameKey(i, j) == log[i].req[1] = log[j].req[1] /\ log[i].req[2] = log[j].req[2]

\* C15: in every family, a second request for the same Shape returns the
\* transform the first one returned and builds nothing, and a request for a
\* distinct Shape of the same structure returns a transform of its own.
MemoizedByIdentity ==
  \A i, j \in DOMAIN log :
    /\ (After(i, j) /\ SameKey(i, j) /\ log[i].err = "" /\ log[j].err = "")
         => (log[j].ret = log[i].ret /\ log[j].builds = 0)
    /\ (log[i].req[1] = log[j].req[1] /\ log[i].req[2] = StructS /\ log[j].req[2] = TwinStructS
        /\ log[i].err = "" /\ log[j].err = "")
         => log[i].ret # log[j].ret

LeadsBackToItself == {SelfS, ChainAS}

\* C16: a request (attribute codec, Equals, IsInstance, Validator) for a
\* Struct that a field leads back to returns a transform, having built the
\* transform of the Struct once.
SelfReferenceCompiles ==
  \A i \in DOMAIN log :
    (log[i].req[2] \in LeadsBackToItself /\ log[i].req[1] \in {"mapper", "equals", "isInstance", "validator"})
      => (log[i].err = "" /\ log[i].builds = 1)

\* what the request returns when no other request has been made
Alone(req) ==
  Of(IF req[3][1] = "fresh" THEN <<req[1], req[2], NewCache>> ELSE req,
     [caches |-> {}, built |-> <<>>, nextId |-> 0, maps |-> 0, err |-> "", ret |-> NoTransform], 1)
SameBehaviour(t, u) == t.fam = u.fam /\ t.shape = u.shape
EntriesOf(c, s) == {e \in caches : e[1] = c /\ e[2] = s}

-----------------------------------------------------------------------------
(* Properties of the Namespace, over the calls recorded in hist. *)

Calls(op) == {i \in DOMAIN hist : hist[i][1] = op}
CallArg(i) == hist[i][2]
CallRet(i) == hist[i][3]
PathsRequested == {CallArg(i) : i \in Calls("addName") \cup Calls("writeName")}
TableSize(tbl) == IF tbl = Undefined THEN 0 ELSE Len(Payload(tbl))

\* C3: addName gives one path one token and two paths two tokens, and the
\* name-alias table has exactly one entry per distinct path requested, the
\* entry of a path's token being that path.
NameAliasDedup ==
  /\ \A i, j \in Calls("addName") : (CallArg(i) = CallArg(j)) <=> (CallRet(i) = CallRet(j))
  /\ \A i \in Calls("addName") : ObjGet(aliases, Payload(CallRet(i))) = CallArg(i)
  /\ TableSize(aliases) = Cardinality(PathsRequested)

NameAliasDedupWitness ==
  \E i, j, k \in Calls("addName") :
    /\ i < j /\ CallArg(i) = CallArg(j) /\ CallArg(k) # CallArg(i)
    /\ \E m \in Calls("addValue") : i < m /\ m < j

\* C4: the tokens returned by N addValue calls are pairwise distinct, and the
\* value table maps each of them to the value of the call that returned it.
ValueAliasFresh ==
  /\ \A i, j \in Calls("addValue") : i # j => CallRet(i) # CallRet(j)
  /\ \A i \in Calls("addValue") : ObjGet(values, Payload(CallRet(i))) = CallArg(i)
  /\ TableSize(values) = Cardinality(Calls("addValue") \cup Calls("writeValue"))

ValueAliasFreshWitness ==
  \E i, j, k \in Calls("addValue") :
    i < j /\ j < k /\ CallArg(i) = CallArg(j) /\ CallArg(j) = CallArg(k)

\* C6: the expression carries no value-alias table exactly when no value
\* alias was ever allocated; writing names and raw tokens leaves it absent.
ValueTableOmitted ==
  (toExpression(CurrentWriter).ExpressionAttributeValues = Undefined)
    <=> (Calls("addValue") \cup Calls("writeValue") = {})

ValueTableOmittedWitness ==
  /\ Calls("writeName") # {}
  /\ Calls("writeToken") # {}
  /\ Calls("addValue") \cup Calls("writeValue") = {}
  /\ toExpression(CurrentWriter).ExpressionAttributeNames # Undefined
  /\ toExpression(CurrentWriter).ExpressionAttributeValues = Undefined

\* the calls that ask the Namespace for a name alias, and for a value alias
NameCalls == Calls("addName") \cup Calls("writeName")
ValueCalls == Calls("addValue") \cup Calls("writeValue")
Min(S) == CHOOSE m \in S : \A n \in S : m <= n
FirstRequest(path) == Min({i \in NameCalls : CallArg(i) = path})
\* how many distinct paths were requested up to the first request of path
PathRank(path) == Cardinality({q \in PathsRequested : FirstRequest(q) <= FirstRequest(path)})
\* how many value aliases were asked for up to call i
ValueRank(i) == Cardinality({m \in ValueCalls : m <= i})
DenseTokens ==
  /\ \A i \in Calls("addName") : CallRet(i) = Str("#" \o IntToString(PathRank(CallArg(i))))
  /\ \A i \in Calls("addValue") : CallRet(i) = Str(":" \o IntToString(ValueRank(i)))
\* the call a step makes, when it makes one
Called(op) == hist' # hist /\ hist'[Len(hist')][1] = op
KnownPath == hist'[Len(hist')][2] \in PathsRequested
NamespaceFrame ==
  /\ Called("addName") => valuesCounter' = valuesCounter /\ values' = values
  /\ Called("addName") /\ KnownPath => UNCHANGED <<tokens, nsVars>>
  /\ Called("addValue") =>
       namesCounter' = namesCounter /\ aliases' = aliases /\ aliasReverseLookup' = aliasReverseLookup

\* C28: the k-th distinct field path requested has the token #k and the j-th
\* value alias asked for is :j, however the calls interleave; addName leaves
\* the value counter and the value table alone, addValue leaves the name
\* counter and the name tables alone, and addName of a known path changes
\* nothing.
CountersIndependentDense == []DenseTokens /\ [][NamespaceFrame]_vars

CountersIndependentDenseWitness ==
  \E i, j, k, l \in DOMAIN hist :
    /\ i < j /\ j < k /\ k < l
    /\ hist[i][1] = "addName" /\ CallRet(i) = Str("#1")
    /\ hist[j][1] = "addValue" /\ CallRet(j) = Str(":1")
    /\ hist[k][1] = "addName" /\ CallArg(k) # CallArg(i) /\ CallRet(k) = Str("#2")
    /\ hist[l][1] = "addValue" /\ CallRet(l) = Str(":2")
    /\ namesCounter = 2 /\ valuesCounter = 2

\* the tokens written and not popped after the first n calls, in write order
RECURSIVE Written(_)
Written(n) ==
  IF n = 0 THEN <<>>
  ELSE CASE hist[n][1] = "writeToken" -> Append(Written(n - 1), Payload(CallArg(n)))
         [] hist[n][1] = "writeName" -> Append(Written(n - 1), "#" \o IntToString(PathRank(CallArg(n))))
         [] hist[n][1] = "writeValue" -> Append(Written(n - 1), ":" \o IntToString(ValueRank(n)))
         [] hist[n][1] = "pop" /\ Written(n - 1) # <<>> -> SubSeq(Written(n - 1), 1, Len(Written(n - 1)) - 1)
         [] OTHER -> Written(n - 1)
RECURSIVE ConcatUpTo(_, _)
ConcatUpTo(ts, n) == IF n = 0 THEN "" ELSE ConcatUpTo(ts, n - 1) \o ts[n]
LastOrUndefined(ts) == IF ts = <<>> THEN Undefined ELSE Str(ts[Len(ts)])
BufferInOrder ==
  /\ toExpression(CurrentWriter).Expression = ConcatUpTo(Written(Len(hist)), Len(Written(Len(hist))))
  /\ \A i \in Calls("head") \cup Calls("pop") : CallRet(i) = LastOrUndefined(Written(i - 1))
BufferStep ==
  /\ Called("writeName") =>
       /\ tokens' = Append(tokens, Payload(ObjGet(aliasReverseLookup', Payload(hist'[Len(hist')][2]))))
  /\ Called("writeValue") =>
       /\ tokens' = Append(tokens, ":" \o IntToString(valuesCounter'))
       /\ ObjGet(values', ":" \o IntToString(valuesCounter')) = hist'[Len(hist')][2]
  /\ Called("pop") =>
       /\ tokens' = (IF tokens = <<>> THEN <<>> ELSE SubSeq(tokens, 1, Len(tokens) - 1))
       /\ UNCHANGED nsVars
  /\ Called("head") => UNCHANGED <<tokens, nsVars>>

\* C29: the expression is the tokens written and not popped, in write
\* order, with nothing between them; writeName and writeValue append the one
\* alias the Namespace returned; pop takes off the last token only and
\* returns it; head returns the last token and changes nothing; on an empty
\* buffer both return undefined.
TokenBufferOrdered == []BufferInOrder /\ [][BufferStep]_vars

TokenBufferOrderedWitness ==
  /\ Len(hist) = 4
  /\ hist[1][1] = "writeName" /\ hist[2][1] = "writeValue"
  /\ hist[3][1] = "pop" /\ CallRet(3) = Str(":1")
  /\ hist[4][1] = "head" /\ CallRet(4) = Str("#1")
  /\ toExpression(CurrentWriter).Expression = "#1"

\* a pop and a head on the empty buffer
EmptyBufferWitness ==
  \E i, j \in DOMAIN hist :
    /\ hist[i][1] = "pop" /\ Written(i - 1) = <<>> /\ CallRet(i) = Undefined
    /\ hist[j][1] = "head" /\ Written(j - 1) = <<>> /\ CallRet(j) = Undefined

-----------------------------------------------------------------------------
(* Properties of the codecs, over the call the codec variables record. *)

\* the value is one the instance check of the shape accepts
IsValidInput == IsInstance(shape, input) = T

\* the shape is one the codec is built for (the others fail at compilation)
HasAttrCodec == MapperCompiles(shape)
HasJsonCodec == JsonCompiles(shape)

\* C1: for a value the instance check of the shape accepts, the attribute
\* codec with its default options writes it without failing, and reading
\* what was written gives a value Equals of the shape holds equal to it.
AttrRoundTrip ==
  /\ (phase = "attr.written" /\ optValidate /\ HasAttrCodec /\ IsValidInput) => ~IsThrow(wire)
  /\ (phase = "attr.readback" /\ optValidate /\ HasAttrCodec /\ IsValidInput)
       => /\ ~IsThrow(output)
          /\ Equals(shape, output, input, FALSE) = T

\* C2: for a value the instance check of the shape accepts, the JSON codec
\* writes it without failing, and reading what was written gives a value
\* Equals of the shape holds equal to it.
JsonRoundTrip ==
  /\ (phase = "json.written" /\ HasJsonCodec /\ IsValidInput) => ~IsThrow(wire)
  /\ (phase = "json.readback" /\ HasJsonCodec /\ IsValidInput)
       => /\ ~IsThrow(output)
          /\ Equals(shape, output, input, FALSE) = T

\* C9: the attribute codec writes a Struct value as {M: m}, and m has the
\* key of a field exactly when the value has that field (not undefined).
StructWriteOmitsAbsent ==
  (phase = "attr.written" /\ Kind(shape) = "structShape" /\ IsValidInput)
    => /\ ~IsThrow(wire)
       /\ ObjKeys(wire) = <<"M">>
       /\ \A i \in DOMAIN Fields(shape) :
            ObjHas(ObjGet(wire, "M"), Fields(shape)[i][1])
              <=> (GetProp(input, Fields(shape)[i][1]) # Undefined)

\* the discriminant key the reader of a shape asks the wire value for
HasDiscriminant(s) ==
  Kind(s) \in {"stringShape", "enumShape", "numberShape", "timestampShape", "binaryShape",
               "boolShape", "structShape", "mapShape", "arrayShape", "setShape"}
ExpectedKey(s) ==
  CASE Kind(s) \in {"stringShape", "enumShape", "timestampShape"} -> "S"
    [] Kind(s) = "numberShape" -> "N"
    [] Kind(s) = "binaryShape" -> "B"
    [] Kind(s) = "boolShape" -> "BOOL"
    [] Kind(s) \in {"structShape", "mapShape"} -> "M"
    [] Kind(s) = "arrayShape" -> "L"
    [] Kind(s) = "setShape" -> SetElementKey(s)

\* C10: the attribute codec's read of a wire value that lacks the
\* discriminant key of the shape raises an error and returns no value.
ReadFailsOnMissingKey ==
  (/\ phase = "attr.read"
   /\ HasDiscriminant(shape)
   /\ GetProp(input, ExpectedKey(shape)) = Undefined)
    => IsThrow(output)

\* what the reader of each variant of a Union makes of a wire value, on its own
VariantReads(s, v) == [i \in DOMAIN Items(s) |-> MapperRead(Items(s)[i], v, TRUE)]
JsonVariantReads(s, v) == [i \in DOMAIN Items(s) |-> JsonRead(Items(s)[i], v)]
FirstOk(rs) == CHOOSE i \in DOMAIN rs : ~IsThrow(rs[i]) /\ \A j \in 1..(i - 1) : IsThrow(rs[j])
FirstReaderWins(rs, out) ==
  IF \E i \in DOMAIN rs : ~IsThrow(rs[i]) THEN out = rs[FirstOk(rs)] ELSE IsThrow(out)

\* the wire kind of a value and of a variant: the discriminant key of the
\* attribute format, the runtime type of the JSON format
WireKey(v) == IF Tag(v) = "object" /\ Len(Payload(v)) = 1 THEN ObjKeys(v)[1] ELSE ""
JsonKind(s) ==
  CASE Kind(s) \in {"stringShape", "enumShape", "timestampShape", "binaryShape"} -> "string"
    [] Kind(s) \in {"numberShape", "integerShape"} -> "number"
    [] Kind(s) = "boolShape" -> "boolean"
    [] OTHER -> ""
\* the variant j of s is the first of the wire kind k, and the variants before it have readers of other kinds
OwnsKind(s, j, k, kindOf(_)) ==
  /\ kindOf(Items(s)[j]) = k
  /\ \A i \in 1..(j - 1) : kindOf(Items(s)[i]) \notin {"", k}
AttrKind(s) == IF HasDiscriminant(s) THEN ExpectedKey(s) ELSE ""
LaterVariantDecodes(s, rs, k, kindOf(_), out) ==
  \A j \in DOMAIN rs : (OwnsKind(s, j, k, kindOf) /\ ~IsThrow(rs[j])) => out = rs[j]

\* C11: reading a wire value with the codec of a Union gives what the first
\* variant reader that does not fail gives, fails exactly when every variant
\* reader fails, and a wire value of the kind of a later variant, which that
\* variant reads, is decoded by that variant and not by an earlier variant
\* of another wire kind.
UnionReadFirstReader ==
  /\ (phase = "attr.read" /\ Kind(shape) = "unionShape")
       => /\ FirstReaderWins(VariantReads(shape, input), output)
          /\ LaterVariantDecodes(shape, VariantReads(shape, input), WireKey(input), AttrKind, output)
  /\ (phase = "json.read" /\ Kind(shape) = "unionShape")
       => /\ FirstReaderWins(JsonVariantReads(shape, input), output)
          /\ LaterVariantDecodes(shape, JsonVariantReads(shape, input), TypeOf(input), JsonKind, output)

\* what the instance check and the writer of each variant of a Union make of a value
VariantChecks(s, v) == [i \in DOMAIN Items(s) |-> IsInstance(Items(s)[i], v)]
VariantWrites(s, v) == [i \in DOMAIN Items(s) |-> MapperWrite(Items(s)[i], v, TRUE)]
JsonVariantWrites(s, v) == [i \in DOMAIN Items(s) |-> JsonWrite(Items(s)[i], v)]
Accepts(cs, i) == cs[i] = T /\ \A j \in 1..(i - 1) : cs[j] = F
FirstMatchWrites(cs, ws, out) ==
  IF \E i \in DOMAIN cs : Accepts(cs, i)
  THEN out = ws[CHOOSE i \in DOMAIN cs : Accepts(cs, i)]
  ELSE IsThrow(out)
\* an absent value given to the mapper of a Union that has a Nothing variant
AbsentOfOptional == isOptional(shape) /\ Tag(input) \in {"undefined", "null"}

\* C12 as stated: writing any value with the codec of a Union writes it with
\* the codec of the first variant whose instance check accepts it, and fails
\* when no variant's check accepts it.
UnionWriteFirstMatchAlways ==
  /\ (phase = "attr.written" /\ Kind(shape) = "unionShape")
       => FirstMatchWrites(VariantChecks(shape, input), VariantWrites(shape, input), wire)
  /\ (phase = "json.written" /\ Kind(shape) = "unionShape")
       => FirstMatchWrites(VariantChecks(shape, input), JsonVariantWrites(shape, input), wire)

\* C12 amended: unless the value is undefined or null and the Union has a
\* Nothing variant, writing a value with the codec of a Union writes it with
\* the codec of the first variant whose instance check accepts it, the checks
\* before it having rejected it, and fails when there is no such variant.
UnionWriteFirstMatch ==
  /\ (phase = "attr.written" /\ Kind(shape) = "unionShape" /\ ~AbsentOfOptional)
       => FirstMatchWrites(VariantChecks(shape, input), VariantWrites(shape, input), wire)
  /\ (phase = "json.written" /\ Kind(shape) = "unionShape" /\ ~AbsentOfOptional)
       => FirstMatchWrites(VariantChecks(shape, input), JsonVariantWrites(shape, input), wire)

\* a string, which the checks of both variants of union[binary, string]
\* accept, has been written by the attribute codec of the first
UnionWriteFirstMatchWitness ==
  /\ phase = "attr.written"
  /\ shape = BinaryOrStringS
  /\ input = Str("a")
  /\ IsInstance(StringS, input) = T
  /\ wire = Wire("B", Str("a"))

\* the element shapes of the sets the attribute format has, and the key of each
SetElementsSupported(s) ==
  Kind(Items(s)) \in {"stringShape", "enumShape", "numberShape", "binaryShape"}
SetKeyOf(s) ==
  CASE Kind(Items(s)) \in {"stringShape", "enumShape"} -> "SS"
    [] Kind(Items(s)) = "numberShape" -> "NS"
    [] Kind(Items(s)) = "binaryShape" -> "BS"
    [] OTHER -> ""
\* what the call on the mapper of the shape returned or threw
CallResult == IF phase = "attr.written" THEN wire ELSE output

\* the errors Mapper.of throws while it builds a mapper
IsCompileError(r) ==
  r \in {Throw("Error: invalid DynamoDB set type"), Throw("Error: Shape is not supported by DynamoDB")}

\* C13: Mapper.of returns a mapper for a Set of strings or enum values, of
\* numbers or of binaries, which writes what it writes under the one key SS,
\* NS or BS and reads what it reads of a wire value of that key as a set; for a Set of any
\* other element shape Mapper.of throws its set-type error, whatever is to
\* be read or written.
SetCodecKeys ==
  Kind(shape) = "setShape" =>
    /\ (phase \in {"attr.written", "attr.read"} /\ SetElementsSupported(shape))
         => ~IsCompileError(CallResult)
    /\ (phase = "attr.written" /\ SetElementsSupported(shape) /\ ~IsThrow(wire))
         => ObjKeys(wire) = <<SetKeyOf(shape)>>
    /\ (phase = "attr.read" /\ SetElementsSupported(shape) /\ WireKey(input) = SetKeyOf(shape)
          /\ ~IsThrow(output))
         => Tag(output) = "set"
    /\ (phase \in {"attr.written", "attr.read"} /\ ~SetElementsSupported(shape))
         => CallResult = Throw("Error: invalid DynamoDB set type")

\* Mapper.of has thrown for a Set of booleans that was to write the empty set
SetCodecKeysWitness ==
  /\ phase = "attr.written"
  /\ shape = SetOfBoolS
  /\ input = SetOf(<<>>)
  /\ IsThrow(wire)

\* a Function or Never shape is the shape or one of its parts
RECURSIVE HasUnsupportedPart(_)
HasUnsupportedPart(s) ==
  CASE Kind(s) \in {"functionShape", "neverShape"} -> TRUE
    [] Kind(s) = "structShape" -> \E i \in DOMAIN Fields(s) : HasUnsupportedPart(Fields(s)[i][2])
    [] Kind(s) \in {"arrayShape", "setShape", "mapShape"} -> HasUnsupportedPart(Items(s))
    [] Kind(s) = "unionShape" -> \E i \in DOMAIN Items(s) : HasUnsupportedPart(Items(s)[i])
    [] Kind(s) = "literalShape" -> HasUnsupportedPart(ShapeTab[s].Type)
    [] OTHER -> FALSE

\* C14: for a Function or Never shape, or a shape with one among its fields,
\* elements or variants, Mapper.of and Json.mapper throw their unsupported-
\* shape error instead of returning a mapper, so every read and write on
\* such a shape ends in that error, whatever the value.
UnsupportedShapeFailsToCompile ==
  HasUnsupportedPart(shape) =>
    /\ phase = "attr.written" => wire = Throw("Error: Shape is not supported by DynamoDB")
    /\ phase = "attr.read" => output = Throw("Error: Shape is not supported by DynamoDB")
    /\ phase = "json.written" => wire = Throw("Error: shape is not supported by JSON")
    /\ phase = "json.read" => output = Throw("Error: shape is not supported by JSON")

\* Mapper.of has thrown for a List of Never that was to write the empty list
UnsupportedShapeFailsToCompileWitness ==
  /\ phase = "attr.written"
  /\ shape = ArrayOfNeverS
  /\ input = Arr(<<>>)
  /\ IsThrow(wire)

Absent(v) == Tag(v) \in {"undefined", "null"}
\* what the mapper inside the optional wrapper gives, under the options of the call
InnerWrite(s, v) ==
  IF optValidate THEN Try(assertIsValid(s, v), LAMBDA valid : resolveShapeWrite(s, v, optValidate))
  ELSE resolveShapeWrite(s, v, optValidate)
InnerRead(s, v) ==
  IF optValidate THEN assertIsValid(s, resolveShapeRead(s, v, optValidate))
  ELSE resolveShapeRead(s, v, optValidate)

\* C30: the attribute and the JSON mapper of an optional shape return
\* undefined for undefined and null for null, written or read, and never
\* the {NULL: true} marker; every other input goes to the inner mapper.
OptionalPassesAbsence ==
  isOptional(shape) =>
    /\ (phase = "attr.written" /\ HasAttrCodec) =>
         /\ wire = (IF Absent(input) THEN input ELSE InnerWrite(shape, input))
         /\ Absent(input) => wire # Wire("NULL", T)
    /\ (phase = "attr.readback" /\ HasAttrCodec) =>
         output = (IF Absent(wire) THEN wire ELSE InnerRead(shape, wire))
    /\ (phase = "attr.read" /\ HasAttrCodec) => output = InnerRead(shape, input)
    /\ (phase = "json.written" /\ HasJsonCodec) =>
         wire = (IF Absent(input) THEN input ELSE VisitWrite(shape, input))
    /\ (phase = "json.readback" /\ HasJsonCodec) =>
         output = (IF Absent(wire) THEN wire ELSE VisitRead(shape, wire))
    /\ (phase = "json.read" /\ HasJsonCodec) =>
         output = (IF Absent(input) THEN input ELSE VisitRead(shape, input))

\* null written and read back by the validating attribute mapper of an optional number
OptionalPassesAbsenceWitness ==
  /\ shape = OptNumberS /\ optValidate
  /\ phase = "attr.readback"
  /\ input = Null /\ wire = Null /\ output = Null

\* undefined written and read back by the JSON mapper of an optional number
OptionalJsonWitness ==
  /\ shape = OptNumberS
  /\ phase = "json.readback"
  /\ input = Undefined /\ wire = Undefined /\ output = Undefined

-----------------------------------------------------------------------------
(* Properties of IsInstance and Equals, over the call of CheckSpec.        *)

IsCollection(s) == Kind(s) \in {"arrayShape", "setShape", "mapShape"}
\* an array for a List, a Set for a Set, an object of string keys for a Map
RightContainer(s, a) ==
  CASE Kind(s) = "arrayShape" -> Tag(a) = "array"
    [] Kind(s) = "setShape" -> Tag(a) = "set"
    [] Kind(s) = "mapShape" -> Tag(a) = "object"
ElementsOf(a) ==
  IF Tag(a) = "object" THEN [i \in DOMAIN Payload(a) |-> Payload(a)[i][2]] ELSE Payload(a)
AllConform(s, elements) == \A i \in DOMAIN elements : IsInstance(s, elements[i]) = T

\* C18: the instance check of a List, Set or Map accepts a value exactly
\* when it is a container of the right kind and every element conforms to
\* the Shape of the items.
CollectionInstanceCheck ==
  (phase = "isInstance" /\ IsCollection(shape))
    => output = Bool(RightContainer(shape, input) /\ AllConform(Items(shape), ElementsOf(input)))

\* what typeof calls an object that is one: not null
IsObjectValue(a) == TypeOf(a) = "object" /\ a # Null
DeclaredFieldsConform(s, a) ==
  \A i \in DOMAIN Fields(s) : IsInstance(Fields(s)[i][2], GetProp(a, Fields(s)[i][1])) = T

\* C19: the instance check of a Struct accepts a value exactly when the
\* value is an object and the value of each declared field (undefined for a
\* missing key) conforms to the field's Shape; no other key counts.
StructInstanceStructural ==
  (phase = "isInstance" /\ Kind(shape) = "structShape")
    => output = Bool(IsObjectValue(input) /\ DeclaredFieldsConform(shape, input))

KeyNames(a) == KeysOf(Payload(OwnEntries(a)))
FieldEqual(s, a, b, name, same) ==
  \/ GetProp(a, name) = Undefined /\ GetProp(b, name) = Undefined
  \/ FieldShape(s, name) # 0
       /\ Equals(FieldShape(s, name), GetProp(a, name), GetProp(b, name), same) = T
EqualFieldWise(s, a, b, same) ==
  /\ Len(KeyNames(a)) = Len(KeyNames(b))
  /\ \A i \in DOMAIN KeyNames(a) : FieldEqual(s, a, b, KeyNames(a)[i], same)

\* C20: Equals of a Struct is true exactly when the two values have the
\* same number of fields and every field is equal under the Equals of its
\* Shape, a field absent on both sides being equal; a value equals itself.
StructEquality ==
  (phase \in {"equals", "equals.same"} /\ Kind(shape) = "structShape")
    => /\ output = Bool(EqualFieldWise(shape, input, otherInput, phase = "equals.same"))
       /\ phase = "equals.same" => output = T

RECURSIVE MatchOf(_, _, _)
\* the first variant, from the i-th on, whose instance check accepts v; 0 when none does
MatchOf(variants, i, v) ==
  IF i > Len(variants) THEN 0
  ELSE IF IsInstance(variants[i], v) = T THEN i
  ELSE MatchOf(variants, i + 1, v)
IsEqualsCall == phase \in {"equals", "equals.same"}
VariantEquality(s, i, a, b, same) == Equals(Items(s)[i], a, b, same)

RECURSIVE FirstCommon(_, _, _, _)
\* the first variant, from the i-th on, whose instance check accepts a and b;
\* 0 when none does, -1 when an instance check asked on the way throws
FirstCommon(variants, i, a, b) ==
  IF i > Len(variants) THEN 0
  ELSE IF IsThrow(IsInstance(variants[i], a)) THEN -1
  ELSE IF IsInstance(variants[i], a) = F THEN FirstCommon(variants, i + 1, a, b)
  ELSE IF IsThrow(IsInstance(variants[i], b)) THEN -1
  ELSE IF IsInstance(variants[i], b) = F THEN FirstCommon(variants, i + 1, a, b)
  ELSE i

IsValidatorCall == phase = "validator"
FieldPath(path, name) == path \o "['" \o name \o "']"
IndexPath(path, i) == path \o "[" \o IntToString(i) \o "]"
\* what the validator of each field, and of each element, returns on its own
FieldResults(s, a, path) ==
  [i \in DOMAIN Fields(s) |->
     Validator(Fields(s)[i][2], GetProp(a, Fields(s)[i][1]), FieldPath(path, Fields(s)[i][1]))]
ElementResults(s, a, path) ==
  [i \in DOMAIN Payload(a) |-> Validator(Items(s), Payload(a)[i], IndexPath(path, i - 1))]
NoneThrows(results) == \A i \in DOMAIN results : ~IsThrow(results[i])
RECURSIVE Flatten(_)
Flatten(results) ==
  IF results = <<>> THEN <<>> ELSE Payload(Head(results)) \o Flatten(Tail(results))
PathsIn(result) == [i \in DOMAIN Payload(result) |-> Payload(result)[i].path]
IsEnumValue(v) == IsInstance(EnumS, v) = T

EntryResults(s, a, path) ==
  [i \in DOMAIN Payload(a) |-> Validator(Items(s), Payload(a)[i][2], FieldPath(path, Payload(a)[i][1]))]
NoRepeat(seq) == \A i, j \in DOMAIN seq : i # j => seq[i] # seq[j]

\* C23: the validator of an element is handed the path of the collection
\* extended by the element's position, [i] in a List and ['k'] in a Map, and
\* the elements of one collection (a Set too) are validated under paths
\* that differ.
ElementPaths ==
  /\ (IsValidatorCall /\ Kind(shape) = "arrayShape" /\ Tag(input) = "array"
      /\ NoneThrows(ElementResults(shape, input, "$")))
       => output = Errors(Flatten(ElementResults(shape, input, "$")))
  /\ (IsValidatorCall /\ Kind(shape) = "mapShape" /\ Tag(input) = "object"
      /\ NoneThrows(EntryResults(shape, input, "$")))
       => output = Errors(Flatten(EntryResults(shape, input, "$")))
  /\ (IsValidatorCall /\ Kind(shape) \in {"arrayShape", "mapShape", "setShape"}
      /\ Kind(Items(shape)) = "enumShape" /\ RightContainer(shape, input) /\ ~IsThrow(output))
       => NoRepeat(PathsIn(output))

\* C24: the Validator of a Literal returns a diagnostic for every value that
\* is not the literal value, one of the literal's type too, and none for
\* the literal value.
LiteralValidated ==
  (IsValidatorCall /\ Kind(shape) = "literalShape")
    => /\ ~IsThrow(output)
       /\ (Payload(output) = <<>>) <=> (input = ShapeTab[shape].Value)

\* C26: the Validator returns a diagnostic for a value the instance check
\* of the Shape rejects, and none for a value it accepts.
ValidatorMirrorsInstanceCheck ==
  IsValidatorCall
    => /\ IsInstance(shape, input) = F => (~IsThrow(output) /\ Payload(output) # <<>>)
       /\ IsInstance(shape, input) = T => output = NoErrors

-----------------------------------------------------------------------------
(* Properties of Update.compile, over the batch in input and the result in *)
(* output.                                                                 *)

\* the field paths a clause references, in the order it references them
PathsOf(c) ==
  CASE c[1] = "setRef" -> <<c[2], c[3]>>
    [] c[1] \in {"increment", "concat"} -> <<c[2], c[2]>>
    [] OTHER -> <<c[2]>>
RECURSIVE PathSeq(_)
PathSeq(b) == IF b = <<>> THEN <<>> ELSE PathsOf(Head(b)) \o PathSeq(Tail(b))
DistinctPaths(b) == {PathSeq(b)[i] : i \in DOMAIN PathSeq(b)}

\* the alias a path is due: paths are numbered from 1 in the order of their first reference
NameAliasOf(b, path) ==
  LET first == CHOOSE i \in DOMAIN PathSeq(b) :
                 PathSeq(b)[i] = path /\ \A j \in 1..(i - 1) : PathSeq(b)[j] # path
  IN "#" \o NatToString(Cardinality({PathSeq(b)[j] : j \in 1..first}))

\* the alias the literal operand of clause i is due: operands are numbered from 1 across the batch
LiteralClauses(b) == {i \in DOMAIN b : HasLiteral(b[i])}
ValueAliasOf(b, i) == ":" \o NatToString(Cardinality({j \in LiteralClauses(b) : j <= i}))

\* the fragment of clause i of batch b
Fragment(b, i) ==
  LET c == b[i]
      n == NameAliasOf(b, c[2])
      v == ValueAliasOf(b, i)
  IN CASE c[1] = "set" -> n \o "=" \o v
       [] c[1] = "setRef" -> n \o "=" \o NameAliasOf(b, c[3])
       [] c[1] = "increment" -> n \o "=" \o n \o "+" \o v
       [] c[1] = "push" -> n \o "[1]=" \o v
       [] c[1] = "concat" -> n \o "=list_append(" \o n \o "," \o v \o ")"
RECURSIVE JoinFragments(_, _)
JoinFragments(b, i) ==
  IF i > Len(b) THEN ""
  ELSE Fragment(b, i) \o (IF i < Len(b) THEN ", " ELSE "") \o JoinFragments(b, i + 1)

Compiled == phase = "update.compiled" /\ ~IsThrow(output)
Batch == Payload(input)
Result == Payload(output)
RepeatedSet == <<SetLiteral("id", Str("value")), SetLiteral("id", Str("value"))>>

\* C5: the expression of a batch is 'SET ' and then the fragments of its
\* clauses in their order, separated by ', '; one field path has one name
\* alias throughout the batch and the name table has exactly the paths
\* referenced; the k-th literal operand of the batch has the value alias :k
\* and the value table binds it to that operand's wire value.
CompileJoinsSharedNamespace ==
  Compiled =>
    /\ Result.UpdateExpression = "SET " \o JoinFragments(Batch, 1)
    /\ TableSize(Result.ExpressionAttributeNames) = Cardinality(DistinctPaths(Batch))
    /\ \A path \in DistinctPaths(Batch) :
         ObjGet(Result.ExpressionAttributeNames, NameAliasOf(Batch, path)) = Str(path)
    /\ TableSize(Result.ExpressionAttributeValues) = Cardinality(LiteralClauses(Batch))
    /\ \A i \in LiteralClauses(Batch) :
         ObjGet(Result.ExpressionAttributeValues, ValueAliasOf(Batch, i)) = OperandWire(Batch[i])
    /\ (Batch = RepeatedSet) => Result.UpdateExpression = "SET #1=:1, #1=:2"

CompileJoinsSharedNamespaceWitness ==
  /\ Compiled
  /\ Batch = RepeatedSet
  /\ Result.UpdateExpression = "SET #1=:1, #1=:2"
  /\ Result.ExpressionAttributeNames = Obj(<< <<"#1", Str("id")>> >>)
  /\ Result.ExpressionAttributeValues =
       Obj(<< <<":1", Wire("S", Str("value"))>>, <<":2", Wire("S", Str("value"))>> >>)

\* the clauses of the batch before its last one, and how the expression of
\* the batch begins when the last clause is taken off it
Last(b) == b[Len(b)]
Front(b) == SubSeq(b, 1, Len(b) - 1)
FrontExpression(b) ==
  IF Len(b) = 1 THEN "SET "
  ELSE Payload(compile(Front(b))).UpdateExpression \o ", "
AliasOfPath(path) == Payload(ObjGet(aliasReverseLookup, path))
LastValueAlias == ":" \o NatToString(valuesCounter)

\* C7: a batch that ends with an increment without a delta ends with
\* <name>=<name>+<value>, where <name> is the one alias of the field both
\* times and <value> is bound to {N:'1'}; increment(count) alone compiles to
\* 'SET #1=#1+:1'.
IncrementFragment ==
  (Compiled /\ Batch # <<>> /\ Last(Batch)[1] = "increment" /\ Last(Batch)[3] = Undefined)
    => /\ Result.UpdateExpression =
            FrontExpression(Batch) \o AliasOfPath(Last(Batch)[2]) \o "="
              \o AliasOfPath(Last(Batch)[2]) \o "+" \o LastValueAlias
       /\ ObjGet(Result.ExpressionAttributeNames, AliasOfPath(Last(Batch)[2])) = Str(Last(Batch)[2])
       /\ ObjGet(Result.ExpressionAttributeValues, LastValueAlias) = Wire("N", Str("1"))
       /\ (Len(Batch) = 1) => Result.UpdateExpression = "SET #1=#1+:1"

IncrementFragmentWitness ==
  /\ Compiled
  /\ Batch = <<Increment("count", Undefined)>>
  /\ Result.UpdateExpression = "SET #1=#1+:1"
  /\ Result.ExpressionAttributeNames = Obj(<< <<"#1", Str("count")>> >>)
  /\ Result.ExpressionAttributeValues = Obj(<< <<":1", Wire("N", Str("1"))>> >>)

\* C8: a batch that ends with a push ends with <name>[1]=<value>, where
\* <value> is bound to the item as the attribute codec of the list's item
\* Shape writes it; push(array, 'value') alone compiles to 'SET #1[1]=:1'
\* with #1 bound to array and :1 bound to {S:'value'}.
PushFragment ==
  (Compiled /\ Batch # <<>> /\ Last(Batch)[1] = "push")
    => /\ Result.UpdateExpression =
            FrontExpression(Batch) \o AliasOfPath(Last(Batch)[2]) \o "[1]=" \o LastValueAlias
       /\ ObjGet(Result.ExpressionAttributeNames, AliasOfPath(Last(Batch)[2])) = Str(Last(Batch)[2])
       /\ ObjGet(Result.ExpressionAttributeValues, LastValueAlias)
            = MapperWrite(Items(MemberShape(Last(Batch)[2])), Last(Batch)[3], TRUE)
       /\ (Batch = <<Push("array", Str("value"))>>)
            => /\ Result.UpdateExpression = "SET #1[1]=:1"
               /\ Result.ExpressionAttributeNames = Obj(<< <<"#1", Str("array")>> >>)
               /\ Result.ExpressionAttributeValues = Obj(<< <<":1", Wire("S", Str("value"))>> >>)

PushFragmentWitness ==
  /\ Compiled
  /\ Batch = <<Push("array", Str("value"))>>
  /\ Result.UpdateExpression = "SET #1[1]=:1"
  /\ ObjGet(Result.ExpressionAttributeValues, ":1") = Wire("S", Str("value"))

====
